---- MODULE Spec2Model ----
(***************************************************************************)
(* A model of the line editor of deadsy/go-cli (src/line.go): the history  *)
(* list of a Linenoise object, the per-line state of one Read call, the    *)
(* edit loop with its key dispatch and the completion cycler, the terminal *)
(* mode around Read, Loop and PrintKeycodes, the history file, the UTF-8   *)
(* byte decoder with getRune, the screen refresh as a terminal of cols     *)
(* columns interprets it, with the hints and the number of columns, and    *)
(* the command line interface built on the editor (src/cli.go): its        *)
(* completion callback and the parsing of a command line.                  *)
(*                                                                         *)
(* Strings are sequences of rune codes (<<97, 32>> is "a "), and sequences *)
(* of bytes where the source works on the bytes of a string.  Slices and   *)
(* the history index are 0-based in the source and 1-based here; every     *)
(* operator that takes an index takes the source's 0-based value.          *)
(***************************************************************************)
EXTENDS Integers, Sequences, FiniteSets, TLC

\* ------------------------------------------------------------------------
\* Keycodes (src/line.go:44-65)
KeycodeNull == 0
KeycodeCtrlA == 1
KeycodeCtrlB == 2
KeycodeCtrlC == 3
KeycodeCtrlD == 4
KeycodeCtrlE == 5
KeycodeCtrlF == 6
KeycodeCtrlH == 8
KeycodeTAB == 9
KeycodeLF == 10
KeycodeCtrlK == 11
KeycodeCtrlL == 12
KeycodeCR == 13
KeycodeCtrlN == 14
KeycodeCtrlP == 16
KeycodeCtrlT == 20
KeycodeCtrlU == 21
KeycodeCtrlW == 23
KeycodeESC == 27
KeycodeBS == 127

\* The capacity NewLineNoise gives the history, and the examples' hotkey '?'.
ReplacementChar == 65533
DefaultHistoryMaxlen == 32
keyHotKey == 63

\* The columns assumed when the terminal does not tell how many it has.
defaultCols == 80

\* ------------------------------------------------------------------------
\* Bounds of the model.
\* MaxLen: inserts are offered only while the edit buffer is shorter.
\* MaxHist: the largest capacity HistorySetMaxlen is called with.
\* MaxEntries: HistoryAdd and Read are called only while the history holds
\*   at most so many entries.
\* MaxTabs: the number of further TABs offered to one completion cycle.
\* MaxPrevs: the number of history-prev keys counted from the start of a line.
\* MaxTyped: in SpecType, inserts are offered only while the edit buffer is
\*   shorter.
MaxLen == 2
MaxHist == 2
MaxEntries == 2
MaxTabs == 3
MaxPrevs == 3
MaxTyped == 3

\* The number of bytes fed to a decoder
MaxBytes == 4

\* In SpecRefresh, inserts are offered only while the buffer is shorter than
\* MaxBuf, and the terminal has up to MaxCols columns.
MaxBuf == 3
MaxCols == 4

\* In SpecCli and SpecSplit, a command line has up to MaxLine bytes, and the
\* CLI runs up to MaxRuns times.
MaxLine == 4
MaxRuns == 2

\* The runes typed into the buffer: 'a' and ' '.
Runes == {97, 32}

\* The strings the caller passes to HistoryAdd and to Read as init.
Lines == {<<97>>, <<97, 97>>}
Inits == {<<>>, <<97>>}

\* The hotkeys the caller configures: none (the zero rune) or '?'.
Hotkeys == {KeycodeNull, keyHotKey}

\* What the history file on disk may be before the program first touches it:
\* absent, or "a\n a \n\naa\n " (a padded line, an empty line, a repeated line).
NoFile == [exists |-> FALSE, data |-> <<>>]
File(s) == [exists |-> TRUE, data |-> s]
DiskFiles == {NoFile, File(<<97, 10, 32, 97, 32, 10, 10, 97, 97, 10, 32>>)}

\* What follows an ESC that is not alone: the runes s0 and s1 that the two
\* timed reads give and, after ESC [ and a digit, the rune s2 of a third (0: the
\* read timed out).  ESC [ and ESC 0 with a letter among A B C D H F Z or
\* nothing, ESC [ 3 and ESC [ 1 with ~, Z or nothing, and ESC Z, ESC alone.
Esc(s0, s1, s2) == [blocked |-> FALSE, s0 |-> s0, s1 |-> s1, s2 |-> s2]
EscSequences ==
  {Esc(s0, s1, 0) : s0 \in {91, 48}, s1 \in {65, 66, 67, 68, 72, 70, 90, 0}}
    \cup {Esc(91, s1, s2) : s1 \in {51, 49}, s2 \in {126, 90, 0}}
    \cup {Esc(90, 0, 0), Esc(0, 0, 0), Esc(90, 65, 0)}

\* ------------------------------------------------------------------------
\* Slices
RemoveAt(s, i) == SubSeq(s, 1, i) \o SubSeq(s, i + 2, Len(s))
InsertAt(s, i, x) == SubSeq(s, 1, i) \o <<x>> \o SubSeq(s, i + 1, Len(s))
Replace(s, i, x) == [s EXCEPT ![i + 1] = x]
Contains(s, x) == \E i \in 1..Len(s) : s[i] = x
Slice(s, i, j) == SubSeq(s, i + 1, j)
Min(a, b) == IF a < b THEN a ELSE b
Max(a, b) == IF a > b THEN a ELSE b

\* ------------------------------------------------------------------------
\* Command history (src/line.go:1069-1162)

\* pop an entry from the history list (idx < 0: the last one)
historyPop(l, idx) ==
  LET i == IF idx < 0 THEN Len(l.history) - 1 ELSE idx
  IN IF i >= 0 /\ i < Len(l.history)
       THEN [l EXCEPT !.history = RemoveAt(@, i)]
       ELSE l

\* Set / get a history entry by index number, 0 being the last entry.
historySet(l, idx, line) ==
  [l EXCEPT !.history = Replace(@, Len(@) - 1 - idx, line)]

historyGet(l, idx) == l.history[(Len(l.history) - 1 - idx) + 1]

\* HistoryAdd that looks for a duplicate in the most recent entry only
HistoryAdd_lastonly(l, line) ==
  IF l.history_maxlen = 0 THEN l
  ELSE IF Len(l.history) > 0 /\ l.history[Len(l.history)] = line THEN l
  ELSE LET l1 == IF Len(l.history) = l.history_maxlen THEN historyPop(l, 0) ELSE l
       IN [l1 EXCEPT !.history = Append(@, line)]

\* HistoryAdd that makes room by removing the most recent entry
HistoryAdd_popnewest(l, line) ==
  IF l.history_maxlen = 0 THEN l
  ELSE IF Contains(l.history, line) THEN l
  ELSE LET l1 == IF Len(l.history) = l.history_maxlen THEN historyPop(l, -1) ELSE l
       IN [l1 EXCEPT !.history = Append(@, line)]

\* HistoryAdd adds a new entry to the history.
HistoryAdd(l, line) ==
  IF l.history_maxlen = 0 THEN l
  ELSE IF Contains(l.history, line) THEN l
  ELSE LET l1 == IF Len(l.history) = l.history_maxlen THEN historyPop(l, 0) ELSE l
       IN [l1 EXCEPT !.history = Append(@, line)]

\* HistorySetMaxlen that truncates to the oldest entries
HistorySetMaxlen_keepoldest(l, n) ==
  IF n < 0 THEN l
  ELSE [l EXCEPT !.history_maxlen = n,
                 !.history = IF Len(@) > n THEN SubSeq(@, 1, n) ELSE @]

\* HistorySetMaxlen sets the maximum length and truncates to the latest entries.
HistorySetMaxlen(l, n) ==
  IF n < 0 THEN l
  ELSE LET current_length == Len(l.history)
       IN [l EXCEPT !.history_maxlen = n,
                    !.history = IF current_length > n
                                  THEN SubSeq(@, current_length - n + 1, current_length)
                                  ELSE @]

\* ------------------------------------------------------------------------
\* The history file (src/line.go:1164-1213)

\* strings.Join(a, sep)
RECURSIVE Join(_, _)
Join(a, sep) ==
  IF Len(a) = 0 THEN <<>>
  ELSE IF Len(a) = 1 THEN a[1]
  ELSE a[1] \o sep \o Join(Tail(a), sep)

\* unicode.IsSpace on the Latin-1 range: \t \n \v \f \r, space, NEL, NBSP
IsSpace(c) == c \in {9, 10, 11, 12, 13, 32, 133, 160}

\* strings.TrimSpace
RECURSIVE TrimLeft(_)
TrimLeft(s) == IF Len(s) > 0 /\ IsSpace(s[1]) THEN TrimLeft(Tail(s)) ELSE s
RECURSIVE TrimRight(_)
TrimRight(s) ==
  IF Len(s) > 0 /\ IsSpace(s[Len(s)]) THEN TrimRight(SubSeq(s, 1, Len(s) - 1)) ELSE s
TrimSpace(s) == TrimRight(TrimLeft(s))

\* The chunks bufio.Reader.ReadString('\n') returns up to io.EOF: each ends
\* with its delimiter, but for the last one, which may be empty.
RECURSIVE ReadStrings(_, _)
ReadStrings(f, cur) ==
  IF Len(f) = 0 THEN <<cur>>
  ELSE IF f[1] = 10 THEN <<Append(cur, 10)>> \o ReadStrings(Tail(f), <<>>)
  ELSE ReadStrings(Tail(f), Append(cur, f[1]))

\* The loop of HistoryLoad: trim each chunk and keep the non-empty ones.
RECURSIVE LoadLines(_)
LoadLines(chunks) ==
  IF Len(chunks) = 0 THEN <<>>
  ELSE LET s == TrimSpace(chunks[1])
       IN (IF Len(s) # 0 THEN <<s>> ELSE <<>>) \o LoadLines(Tail(chunks))

\* HistoryLoad loads history from a file.
HistoryLoad(l, f) ==
  IF ~f.exists THEN l
  ELSE [l EXCEPT !.history = LoadLines(ReadStrings(f.data, <<>>))]

\* HistorySave that separates the entries by spaces
HistorySave_spaces(l, f) ==
  IF Len(l.history) = 0 THEN f
  ELSE File(Join(l.history, <<32>>))

\* HistorySave saves the history to a file; the result is the file.
HistorySave(l, f) ==
  IF Len(l.history) = 0 THEN f
  ELSE File(Join(l.history, <<10>>))

\* ------------------------------------------------------------------------
\* The edit operations of a linestate (src/line.go:510-612).  The state of a
\* line is a record with the fields buf, pos and history_idx.

\* With the fields of the source the record has the field shown: the buffer
\* and the cursor that the last refresh painted on the terminal.
newLineState ==
  [buf |-> <<>>, pos |-> 0, history_idx |-> 0, shown |-> [buf |-> <<>>, pos |-> 0]]

\* refresh the edit line: the terminal shows the buffer and the cursor
refresh_line(ls) == [ls EXCEPT !.shown = [buf |-> ls.buf, pos |-> ls.pos]]

\* string([]rune): a rune that is no valid code point (a surrogate half, or
\* one above U+10FFFF) is converted to U+FFFD.
ValidRune(r) == (0 <= r /\ r < 55296) \/ (57343 < r /\ r <= 1114111)
RunesToString(buf) ==
  [i \in 1..Len(buf) |-> IF ValidRune(buf[i]) THEN buf[i] ELSE ReplacementChar]

\* Return a string for the current line buffer.
String(ls) == RunesToString(ls.buf)

\* delete the character at the current cursor position
editDelete(ls) ==
  IF Len(ls.buf) > 0 /\ ls.pos < Len(ls.buf)
    THEN refresh_line([ls EXCEPT !.buf = RemoveAt(@, ls.pos)])
    ELSE ls

\* editBackspace that leaves the cursor where it was
editBackspace_keeppos(ls) ==
  IF ls.pos > 0 /\ Len(ls.buf) > 0
    THEN refresh_line([ls EXCEPT !.buf = RemoveAt(@, ls.pos - 1)])
    ELSE ls

\* delete the character to the left of the current cursor position
editBackspace(ls) ==
  IF ls.pos > 0 /\ Len(ls.buf) > 0
    THEN refresh_line([ls EXCEPT !.buf = RemoveAt(@, ls.pos - 1), !.pos = @ - 1])
    ELSE ls

\* editInsert that leaves the cursor where it was
editInsert_nomove(ls, r) == refresh_line([ls EXCEPT !.buf = InsertAt(@, ls.pos, r)])

\* insert a character at the current cursor position
editInsert(ls, r) ==
  refresh_line([ls EXCEPT !.buf = InsertAt(@, ls.pos, r), !.pos = @ + 1])

\* Swap current character with the previous character.
editSwap(ls) ==
  IF ls.pos > 0 /\ ls.pos < Len(ls.buf)
    THEN refresh_line(
           [ls EXCEPT !.buf = Replace(Replace(@, ls.pos - 1, ls.buf[ls.pos + 1]),
                                      ls.pos, ls.buf[ls.pos]),
                      !.pos = IF ls.pos # Len(ls.buf) - 1 THEN @ + 1 ELSE @])
    ELSE ls

\* Set the line buffer to a string.
editSet(ls, s) == refresh_line([ls EXCEPT !.buf = s, !.pos = Len(s)])

editMoveLeft(ls) == IF ls.pos > 0 THEN refresh_line([ls EXCEPT !.pos = @ - 1]) ELSE ls

\* editMoveRight without its check for the end of the line
editMoveRight_unchecked(ls) == refresh_line([ls EXCEPT !.pos = @ + 1])

editMoveRight(ls) ==
  IF ls.pos # Len(ls.buf) THEN refresh_line([ls EXCEPT !.pos = @ + 1]) ELSE ls

editMoveHome(ls) == IF ls.pos > 0 THEN refresh_line([ls EXCEPT !.pos = 0]) ELSE ls

editMoveEnd(ls) ==
  IF ls.pos # Len(ls.buf) THEN refresh_line([ls EXCEPT !.pos = Len(ls.buf)]) ELSE ls

\* Delete the line.
delete_line(ls) == refresh_line([ls EXCEPT !.buf = <<>>, !.pos = 0])

\* Delete from the current cursor postion to the end of the line.
delete_to_end(ls) == refresh_line([ls EXCEPT !.buf = SubSeq(@, 1, ls.pos)])

\* Delete the previous space delimited word: the two loops that move pos
\* left, first over spaces, then over the word.
RECURSIVE SkipSpaces(_, _)
SkipSpaces(buf, p) ==
  IF p > 0 /\ buf[p] = 32 THEN SkipSpaces(buf, p - 1) ELSE p
RECURSIVE SkipWord(_, _)
SkipWord(buf, p) ==
  IF p > 0 /\ buf[p] # 32 THEN SkipWord(buf, p - 1) ELSE p

\* delete_prev_word without the loop over the spaces
delete_prev_word_nospaces(ls) ==
  LET old_pos == ls.pos
      new_pos == SkipWord(ls.buf, old_pos)
  IN refresh_line([ls EXCEPT !.pos = new_pos,
                   !.buf = SubSeq(@, 1, new_pos) \o SubSeq(@, old_pos + 1, Len(@))])

delete_prev_word(ls) ==
  LET old_pos == ls.pos
      new_pos == SkipWord(ls.buf, SkipSpaces(ls.buf, old_pos))
  IN refresh_line([ls EXCEPT !.pos = new_pos,
                   !.buf = SubSeq(@, 1, new_pos) \o SubSeq(@, old_pos + 1, Len(@))])

\* ------------------------------------------------------------------------
\* History navigation (src/line.go:1101-1129).  Both store the line buffer in
\* the slot at history_idx, move the index and return the entry found there:
\* the result holds the Linenoise, the linestate and the string returned.

\* historyNext that stores the line buffer and stays at its entry
historyNext_stay(l, ls) ==
  IF Len(l.history) = 0 THEN [l |-> l, ls |-> ls, s |-> <<>>]
  ELSE LET l1 == historySet(l, ls.history_idx, String(ls))
       IN [l |-> l1, ls |-> ls, s |-> historyGet(l1, ls.history_idx)]

\* Return next history item.
historyNext(l, ls) ==
  IF Len(l.history) = 0 THEN [l |-> l, ls |-> ls, s |-> <<>>]
  ELSE LET l1 == historySet(l, ls.history_idx, String(ls))
           i == ls.history_idx - 1
           ls1 == [ls EXCEPT !.history_idx = IF i < 0 THEN 0 ELSE i]
       IN [l |-> l1, ls |-> ls1, s |-> historyGet(l1, ls1.history_idx)]

\* historyPrev that does not store the line buffer
historyPrev_nostash(l, ls) ==
  IF Len(l.history) = 0 THEN [l |-> l, ls |-> ls, s |-> <<>>]
  ELSE LET i == ls.history_idx + 1
           ls1 == [ls EXCEPT !.history_idx =
                     IF i >= Len(l.history) THEN Len(l.history) - 1 ELSE i]
       IN [l |-> l, ls |-> ls1, s |-> historyGet(l, ls1.history_idx)]

\* Return previous history item.
historyPrev(l, ls) ==
  IF Len(l.history) = 0 THEN [l |-> l, ls |-> ls, s |-> <<>>]
  ELSE LET l1 == historySet(l, ls.history_idx, String(ls))
           i == ls.history_idx + 1
           ls1 == [ls EXCEPT !.history_idx =
                     IF i >= Len(l1.history) THEN Len(l1.history) - 1 ELSE i]
       IN [l |-> l1, ls |-> ls1, s |-> historyGet(l1, ls1.history_idx)]

\* ------------------------------------------------------------------------
\* The number of columns (src/line.go:248-315)

\* strconv.Atoi on a string of runes: decimal digits after an optional sign.
\* err is whether Atoi returns an error.
IsDigits(s) == Len(s) > 0 /\ \A i \in 1..Len(s) : 48 <= s[i] /\ s[i] <= 57
RECURSIVE Number(_)
Number(s) ==
  IF Len(s) = 0 THEN 0
  ELSE Number(SubSeq(s, 1, Len(s) - 1)) * 10 + (s[Len(s)] - 48)
Atoi(s) ==
  IF IsDigits(s) THEN [n |-> Number(s), err |-> FALSE]
  ELSE IF Len(s) > 1 /\ s[1] = 43 /\ IsDigits(Tail(s))
    THEN [n |-> Number(Tail(s)), err |-> FALSE]
  ELSE IF Len(s) > 1 /\ s[1] = 45 /\ IsDigits(Tail(s))
    THEN [n |-> 0 - Number(Tail(s)), err |-> FALSE]
  ELSE [n |-> 0, err |-> TRUE]

\* Get the horizontal cursor position.  reply holds the runes that the
\* terminal sends after the query, up to the R (nothing: the query could
\* not be written, or no answer came within the timeout).
get_cursor_position(reply) ==
  LET buf == reply
      semis == {i \in 3..(Len(buf) - 1) : buf[i] = 59}
      semi == CHOOSE i \in semis : TRUE
      cols == Atoi(SubSeq(buf, semi + 1, Len(buf) - 1))
  IN IF Len(buf) < 6 \/ buf[1] # KeycodeESC \/ buf[2] # 91 \/ buf[Len(buf)] # 82
       THEN -1
     ELSE IF Cardinality(semis) # 1 THEN -1
     ELSE IF cols.err THEN -1
     ELSE cols.n

\* Get the number of columns for the terminal.  w is what the ioctl gives
\* (err and the ws_col of the winsize), start and cols are the replies to
\* the two cursor position queries.
getColumns(w, start, cols) ==
  IF w.err = 0 THEN w.col
  ELSE IF get_cursor_position(start) < 0 THEN defaultCols
  ELSE IF get_cursor_position(cols) < 0 THEN defaultCols
  ELSE get_cursor_position(cols)

\* ------------------------------------------------------------------------
\* Go strings.  A string is a sequence of bytes; the hint of a Hint is one.

\* UTF-8 as the standard defines it: s is the well-formed encoding of one
\* code point (no overlong form, no surrogate, nothing above U+10FFFF).
WellFormed(s) ==
  LET Cont(i) == 128 <= s[i] /\ s[i] <= 191 IN
  \/ Len(s) = 1 /\ s[1] <= 127
  \/ Len(s) = 2 /\ 194 <= s[1] /\ s[1] <= 223 /\ Cont(2)
  \/ /\ Len(s) = 3
     /\ 224 <= s[1] /\ s[1] <= 239
     /\ Cont(2) /\ Cont(3)
     /\ s[1] = 224 => s[2] >= 160
     /\ s[1] = 237 => s[2] <= 159
  \/ /\ Len(s) = 4
     /\ 240 <= s[1] /\ s[1] <= 244
     /\ Cont(2) /\ Cont(3) /\ Cont(4)
     /\ s[1] = 240 => s[2] >= 144
     /\ s[1] = 244 => s[2] <= 143

\* The code point that the well-formed s encodes
CodePoint(s) ==
  IF Len(s) = 1 THEN s[1]
  ELSE IF Len(s) = 2 THEN (s[1] - 192) * 64 + (s[2] - 128)
  ELSE IF Len(s) = 3 THEN (s[1] - 224) * 4096 + (s[2] - 128) * 64 + (s[3] - 128)
  ELSE (s[1] - 240) * 262144 + (s[2] - 128) * 4096 + (s[3] - 128) * 64 + (s[4] - 128)

\* The standard decoding of a byte stream: its code points with their sizes,
\* and (U+FFFD, 1) for every byte at which no well-formed code point starts.
\* It is what Go's range over a string gives.
RECURSIVE Decode(_)
Decode(b) ==
  IF Len(b) = 0 THEN <<>>
  ELSE LET ns == {n \in 1..Min(4, Len(b)) : WellFormed(SubSeq(b, 1, n))} IN
       IF ns = {}
         THEN <<[r |-> ReplacementChar, size |-> 1]>> \o Decode(Tail(b))
         ELSE LET n == CHOOSE k \in ns : TRUE IN
              <<[r |-> CodePoint(SubSeq(b, 1, n)), size |-> n]>>
                \o Decode(SubSeq(b, n + 1, Len(b)))

\* ------------------------------------------------------------------------
\* Screen refresh (src/line.go:409-499).  What a refresh writes is a
\* sequence of terminal operations: "cr" (\r), "lf" (\n), "el" (ESC [ 0 K),
\* "cuf", "cuu" and "cud" (ESC [ n C, A and B) and "text" (the runes s).

Op(op) == [op |-> op, n |-> 0, s |-> <<>>]
Move(op, n) == [op |-> op, n |-> n, s |-> <<>>]
Text(s) == [op |-> "text", n |-> 0, s |-> s]

\* runewidth.RuneWidth for the runes of the model: U+0301 (a combining
\* mark) takes no column, U+4E16 (a wide glyph) two, any other rune one.
RuneWidth(r) == IF r = 769 THEN 0 ELSE IF r = 19990 THEN 2 ELSE 1

\* runewidth.StringWidth
RECURSIVE StringWidth(_)
StringWidth(s) ==
  IF Len(s) = 0 THEN 0 ELSE RuneWidth(Head(s)) + StringWidth(Tail(s))

\* The runes of the string b, as range gives them
StringRunes(b) == [i \in 1..Len(Decode(b)) |-> Decode(b)[i].r]

\* refresh_show_hints, lines 388-392: trim the hint until it fits.  hEnd
\* is an index into the bytes of the hint.
RECURSIVE hintEnd(_, _, _)
hintEnd(hint, hEnd, hint_cols) ==
  IF StringWidth(StringRunes(Slice(hint, 0, hEnd))) > hint_cols
    THEN hintEnd(hint, hEnd - 1, hint_cols)
    ELSE hEnd

\* show hints to the right of the cursor: the bytes of the hint that are
\* written.  sc.hint is the hint that the callback returns for every buffer,
\* <<>> when no callback is set or when it returns no hint; the colour
\* sequences around the hint do not move the cursor and are left out.
refresh_show_hints(sc, ls) ==
  LET hint_cols == sc.cols - StringWidth(sc.prompt) - StringWidth(ls.buf)
  IN IF hint_cols <= 0 THEN <<>>
     ELSE IF Len(sc.hint) = 0 THEN <<>>
     ELSE Slice(sc.hint, 0, hintEnd(sc.hint, Len(sc.hint), hint_cols))

\* The terminal, of cols columns with automatic wrap, writes the rune r at
\* the cursor t: a glyph that does not fit in the row goes to the next one,
\* and after a glyph in the last column the cursor stays there, to wrap
\* before the next glyph (t.wrap).
putRune(t, r, cols) ==
  LET w == RuneWidth(r)
      t1 == IF t.wrap \/ t.col + w > cols
              THEN [row |-> t.row + 1, col |-> 0, wrap |-> FALSE]
              ELSE t
  IN IF w = 0 \/ w > cols THEN t
     ELSE IF t1.col + w = cols THEN [t1 EXCEPT !.col = cols - 1, !.wrap = TRUE]
     ELSE [t1 EXCEPT !.col = @ + w]

RECURSIVE putRunes(_, _, _)
putRunes(t, s, cols) ==
  IF Len(s) = 0 THEN t ELSE putRunes(putRune(t, Head(s), cols), Tail(s), cols)

\* The terminal interprets one operation.  A cursor movement by 0 is a
\* movement by 1 (the source writes \r alone for column 0, lines 489-494),
\* and the cursor stops at the last column.
termOp(t, o, cols) ==
  IF o.op = "cr" THEN [t EXCEPT !.col = 0, !.wrap = FALSE]
  ELSE IF o.op = "lf" THEN [t EXCEPT !.row = @ + 1, !.wrap = FALSE]
  ELSE IF o.op = "cuf"
    THEN [t EXCEPT !.col = Min(@ + Max(o.n, 1), cols - 1), !.wrap = FALSE]
  ELSE IF o.op = "cuu" THEN [t EXCEPT !.row = @ - Max(o.n, 1), !.wrap = FALSE]
  ELSE IF o.op = "cud" THEN [t EXCEPT !.row = @ + Max(o.n, 1), !.wrap = FALSE]
  ELSE IF o.op = "text" THEN putRunes(t, o.s, cols)
  ELSE t

RECURSIVE termOps(_, _, _)
termOps(t, seq, cols) ==
  IF Len(seq) = 0 THEN t ELSE termOps(termOp(t, Head(seq), cols), Tail(seq), cols)

\* The cursor of the screen sc
Cursor(sc) == [row |-> sc.row, col |-> sc.col, wrap |-> sc.wrap]

\* A refresh that panics: nothing is written
refreshPanic(sc) == [sc EXCEPT !.panic = TRUE]

\* refresh_singleline, lines 414-418: the left anchor from b_start on, or
\* -1 when the slice buf[b_start:pos] is out of range.
RECURSIVE anchorLeft(_, _, _)
anchorLeft(sc, ls, b_start) ==
  IF b_start > ls.pos THEN -1
  ELSE IF StringWidth(sc.prompt) + StringWidth(Slice(ls.buf, b_start, ls.pos)) >= sc.cols
    THEN anchorLeft(sc, ls, b_start + 1)
  ELSE b_start

\* refresh_singleline, lines 420-424: the right anchor from b_end down, or
\* -1 when the slice buf[b_start:b_end] is out of range.
RECURSIVE anchorRight(_, _, _, _)
anchorRight(sc, ls, b_start, b_end) ==
  IF b_end < b_start THEN -1
  ELSE IF StringWidth(sc.prompt) + StringWidth(Slice(ls.buf, b_start, b_end)) >= sc.cols
    THEN anchorRight(sc, ls, b_start, b_end - 1)
  ELSE b_end

\* single line refresh
refresh_singleline(sc, ls) ==
  LET prompt_width == StringWidth(sc.prompt)
      b_start == anchorLeft(sc, ls, 0)
      b_end == anchorRight(sc, ls, b_start, Len(ls.buf))
      pos_width == StringWidth(Slice(ls.buf, b_start, ls.pos))
      hinted == refresh_show_hints(sc, ls)
      seq == <<Op("cr"), Text(sc.prompt), Text(Slice(ls.buf, b_start, b_end)),
               Text(StringRunes(hinted)),
               Op("el"), Op("cr"), Move("cuf", prompt_width + pos_width)>>
      t == termOps([Cursor(sc) EXCEPT !.row = 0], seq, sc.cols)
  IN IF b_start < 0 THEN refreshPanic(sc)
     ELSE IF b_end < 0 THEN refreshPanic(sc)
     ELSE [sc EXCEPT !.b_start = b_start, !.b_end = b_end, !.row = t.row,
                     !.col = t.col, !.wrap = t.wrap, !.top = 0,
                     !.hinted = hinted]

\* multiline refresh.  The division by cols
\* panics when cols is 0.
refresh_multiline(sc, ls) ==
  LET cols == sc.cols
      prompt_width == StringWidth(sc.prompt)
      buf_width == StringWidth(ls.buf)
      old_rows == sc.maxrows
      rpos == (prompt_width + sc.oldpos + cols) \div cols
      rows == (prompt_width + buf_width + cols - 1) \div cols
      atend == /\ ls.pos # 0
               /\ ls.pos = buf_width
               /\ (ls.pos + prompt_width) % cols = 0
      rows2 == IF atend THEN rows + 1 ELSE rows
      rpos2 == (prompt_width + ls.pos + cols) \div cols
      col == (prompt_width + ls.pos) % cols
      clear == (IF old_rows - rpos > 0 THEN <<Move("cud", old_rows - rpos)>> ELSE <<>>)
                 \o [j \in 1..(3 * (old_rows - 1)) |->
                       IF j % 3 = 1 THEN Op("cr")
                       ELSE IF j % 3 = 2 THEN Op("el") ELSE Move("cuu", 1)]
                 \o <<Op("cr"), Op("el")>>
      hinted == refresh_show_hints(sc, ls)
      paint == <<Text(sc.prompt), Text(ls.buf), Text(StringRunes(hinted))>>
                 \o (IF atend THEN <<Op("lf"), Op("cr")>> ELSE <<>>)
                 \o (IF rows2 - rpos2 > 0 THEN <<Move("cuu", rows2 - rpos2)>> ELSE <<>>)
                 \o (IF col # 0 THEN <<Op("cr"), Move("cuf", col)>> ELSE <<Op("cr")>>)
      t1 == termOps(Cursor(sc), clear, cols)
      t2 == termOps(t1, paint, cols)
  IN IF cols = 0 THEN refreshPanic(sc)
     ELSE [sc EXCEPT !.maxrows = Max(Max(@, rows), rows2), !.oldpos = ls.pos,
                     !.row = t2.row - t1.row, !.col = t2.col, !.wrap = t2.wrap,
                     !.top = t1.row, !.hinted = hinted]

\* refresh the edit line on the screen
refresh(sc, ls) ==
  IF sc.mlmode THEN refresh_multiline(sc, ls) ELSE refresh_singleline(sc, ls)

\* ------------------------------------------------------------------------
\* UTF8 decoding (src/line.go:117-185).  A utf8 is a record with the fields
\* state, count and val; add gives the utf8 after the byte with the rune and
\* the size that it returns.

getByte0 == 0
get3More == 1
get2More == 2
get1More == 3

\* utf8{}
NewUtf8 == [state |-> getByte0, count |-> 0, val |-> 0]

\* a | b on non-negative integers
RECURSIVE BitOr(_, _)
BitOr(a, b) ==
  IF a = 0 THEN b
  ELSE IF b = 0 THEN a
  ELSE (IF a % 2 = 1 \/ b % 2 = 1 THEN 1 ELSE 0) + 2 * BitOr(a \div 2, b \div 2)

\* c&0xc0 == 0x80
IsContinuation(c) == c \div 64 = 2

\* The label Error of add that stays in the state it is in
addError_noreset(u) == [u |-> u, r |-> ReplacementChar, size |-> 1]

\* add, lines 182-184: Error
addError(u) ==
  [u |-> [u EXCEPT !.state = getByte0], r |-> ReplacementChar, size |-> 1]

\* add, case getByte0: a one-byte rune, or the first byte of 2, 3 or 4
addByte0(u, c) ==
  IF c < 128 THEN [u |-> u, r |-> c, size |-> 1]
  ELSE IF c \div 32 = 6
    THEN [u |-> [state |-> get1More, count |-> 2, val |-> (c % 32) * 64],
          r |-> KeycodeNull, size |-> 0]
  ELSE IF c \div 16 = 14
    THEN [u |-> [state |-> get2More, count |-> 3, val |-> (c % 16) * 64],
          r |-> KeycodeNull, size |-> 0]
  ELSE IF c \div 8 = 30
    THEN [u |-> [state |-> get3More, count |-> 4, val |-> (c % 8) * 64],
          r |-> KeycodeNull, size |-> 0]
  ELSE addError(u)

\* add, cases get3More and get2More: a byte that is not the last one
addMore(u, c, next) ==
  IF IsContinuation(c)
    THEN [u |-> [u EXCEPT !.state = next, !.val = BitOr(@, c % 64) * 64],
          r |-> KeycodeNull, size |-> 0]
    ELSE addError(u)

\* The last byte of a rune, with the state left at get1More
addLast_nostate(u, c) ==
  IF IsContinuation(c)
    THEN [u |-> [u EXCEPT !.val = BitOr(@, c % 64)],
          r |-> BitOr(u.val, c % 64), size |-> u.count]
    ELSE addError(u)

\* The last byte of a rune, returned with the size 1
addLast_size1(u, c) ==
  IF IsContinuation(c)
    THEN [u |-> [u EXCEPT !.state = getByte0, !.val = BitOr(@, c % 64)],
          r |-> BitOr(u.val, c % 64), size |-> 1]
    ELSE addError(u)

\* add, case get1More: the last byte of a rune
addLast(u, c) ==
  IF IsContinuation(c)
    THEN [u |-> [u EXCEPT !.state = getByte0, !.val = BitOr(@, c % 64)],
          r |-> BitOr(u.val, c % 64), size |-> u.count]
    ELSE addError(u)

\* Add a byte to a utf8 decode.
add(u, c) ==
  IF u.state = getByte0 THEN addByte0(u, c)
  ELSE IF u.state = get3More THEN addMore(u, c, get2More)
  ELSE IF u.state = get2More THEN addMore(u, c, get1More)
  ELSE addLast(u, c)

\* getRune (src/line.go:190-221) on a descriptor that gives the bytes fd:
\* with ready = FALSE the select reports nothing readable and NUL is
\* returned; otherwise one byte is read and added to u, and NUL is returned
\* for a size of 0 and for (U+FFFD, 1).  a is what add returned, if called.
getRune(u, fd, ready) ==
  IF ~ready THEN [u |-> u, fd |-> fd, r |-> KeycodeNull, a |-> <<>>]
  ELSE LET a == add(u, Head(fd)) IN
       [u |-> a.u, fd |-> Tail(fd),
        r |-> IF a.size = 0 THEN KeycodeNull
              ELSE IF a.size = 1 /\ a.r = ReplacementChar THEN KeycodeNull
              ELSE a.r,
        a |-> <<[r |-> a.r, size |-> a.size]>>]

\* ESC in the edit loop (src/line.go:782-797) on a descriptor that gives the
\* bytes fd, all of them readable at once: would_block, the timed reads of
\* s0 and s1 and, after ESC [ and a digit, of s2.  A timed read with nothing
\* left to read gives NUL.  esc is the record that editEscape takes, a what
\* the calls of add returned.
readEscape(u, fd) ==
  LET g0 == getRune(u, fd, Len(fd) > 0)
      g1 == getRune(g0.u, g0.fd, Len(g0.fd) > 0)
      g2 == getRune(g1.u, g1.fd, Len(g1.fd) > 0)
  IN IF Len(fd) = 0
       THEN [u |-> u, fd |-> fd, a |-> <<>>,
             esc |-> [blocked |-> TRUE, s0 |-> 0, s1 |-> 0, s2 |-> 0]]
     ELSE IF g0.r = 91 /\ g1.r >= 48 /\ g1.r <= 57
       THEN [u |-> g2.u, fd |-> g2.fd, a |-> g0.a \o g1.a \o g2.a,
             esc |-> [blocked |-> FALSE, s0 |-> g0.r, s1 |-> g1.r, s2 |-> g2.r]]
     ELSE [u |-> g1.u, fd |-> g1.fd, a |-> g0.a \o g1.a,
           esc |-> [blocked |-> FALSE, s0 |-> g0.r, s1 |-> g1.r, s2 |-> 0]]

\* The terminal attributes that raw mode changes (src/line.go:87-116): of a
\* Termios the model keeps the flags ICANON and ECHO.
Cooked == [icanon |-> TRUE, echo |-> TRUE]
NoEcho == [icanon |-> TRUE, echo |-> FALSE]

\* unsupported_term that knows no unsupported terminal
unsupported_term_none(t) == FALSE

\* os.Getenv("TERM") is one of the unsupported terminals
unsupported_term(t) == t.TERM \in {"dumb", "cons25", "emacs"}

\* Set a tty terminal to raw mode: the result is the terminal, the original
\* mode (a pointer: <<>> is nil) and whether an error is returned.
setRawMode(t) ==
  IF ~t.isatty THEN [term |-> t, mode |-> <<>>, err |-> TRUE]
  ELSE [term |-> [t EXCEPT !.mode = [@ EXCEPT !.icanon = FALSE, !.echo = FALSE]],
        mode |-> <<t.mode>>, err |-> FALSE]

\* Restore the terminal mode.
restoreMode(t, mode) == [t EXCEPT !.mode = mode[1]]

\* Enable raw mode
enableRawMode(l, t) ==
  LET m == setRawMode(t) IN
  IF m.err THEN [l |-> l, term |-> t, err |-> TRUE]
  ELSE [l |-> [l EXCEPT !.rawmode = TRUE, !.savedmode = m.mode],
        term |-> m.term, err |-> FALSE]

\* disableRawMode that keeps the terminal as it is
disableRawMode_norestore(l, t) ==
  [l |-> [l EXCEPT !.rawmode = FALSE], term |-> t]

\* Disable raw mode
disableRawMode(l, t) ==
  [l |-> [l EXCEPT !.rawmode = FALSE],
   term |-> IF l.rawmode THEN restoreMode(t, l.savedmode) ELSE t]

\* Read a line using basic buffered IO: the scanner gives the next line of
\* stdin, or stops at the end of the stream or at a read error.
read_basic(t) ==
  IF Len(t.stdin) = 0
    THEN [term |-> t, s |-> <<>>, err |-> "quit"]
    ELSE [term |-> [t EXCEPT !.stdin = Tail(@)], s |-> Head(t.stdin), err |-> "nil"]

\* One pass of the loop of Loop that calls fn before it looks at the rune
loopPass_fnfirst(l, t, u, r, f) ==
  IF f = "panic"
    THEN [l |-> l, term |-> t, pc |-> "panic", run |-> [u EXCEPT !.r = r, !.fn = 1, !.f = f]]
  ELSE IF f = "true"
    THEN [l |-> disableRawMode(l, t).l, term |-> disableRawMode(l, t).term,
          pc |-> "idle", run |-> [u EXCEPT !.r = r, !.fn = 1, !.f = f, !.rc = "true"]]
  ELSE IF r = u.exit_key
    THEN [l |-> disableRawMode(l, t).l, term |-> disableRawMode(l, t).term,
          pc |-> "idle", run |-> [u EXCEPT !.r = r, !.fn = 1, !.f = f, !.rc = "false"]]
  ELSE [l |-> l, term |-> t, pc |-> "loop", run |-> [u EXCEPT !.r = r, !.fn = 1, !.f = f]]

\* One pass of the loop of Loop: getRune gives r, and fn, when it is called,
\* returns true or false or panics (f).  The result is the Linenoise, the
\* terminal, the locals and where the call is: in the loop, returned (idle)
\* or left by the panic.
loopPass(l, t, u, r, f) ==
  IF r = u.exit_key
    THEN [l |-> disableRawMode(l, t).l, term |-> disableRawMode(l, t).term,
          pc |-> "idle", run |-> [u EXCEPT !.r = r, !.fn = 0, !.f = "none", !.rc = "false"]]
  ELSE IF f = "panic"
    THEN [l |-> l, term |-> t, pc |-> "panic", run |-> [u EXCEPT !.r = r, !.fn = 1, !.f = f]]
  ELSE IF f = "true"
    THEN [l |-> disableRawMode(l, t).l, term |-> disableRawMode(l, t).term,
          pc |-> "idle", run |-> [u EXCEPT !.r = r, !.fn = 1, !.f = f, !.rc = "true"]]
  ELSE [l |-> l, term |-> t, pc |-> "loop", run |-> [u EXCEPT !.r = r, !.fn = 1, !.f = f]]

\* ------------------------------------------------------------------------
\* The edit loop (src/line.go:740-887)

\* What one pass of the loop body leaves: the loop goes on (done = FALSE), or
\* edit returns the string s and the error err.
ErrNil == "nil"
ErrQuit == "quit"
Continue(l, ls) == [l |-> l, ls |-> ls, done |-> FALSE, s |-> <<>>, err |-> ErrNil]
Return(l, ls, s, err) == [l |-> l, ls |-> ls, done |-> TRUE, s |-> s, err |-> err]

\* edit, lines 742-746: create the line state, set the initial line, and add
\* the current buffer to the history.
editStart(l, init) ==
  LET ls == editSet(newLineState, init)
  IN [l |-> HistoryAdd(l, String(ls)), ls |-> ls]

\* ls.editSet(l.historyPrev(ls)) and ls.editSet(l.historyNext(ls))
editHistoryPrev(l, ls) ==
  LET h == historyPrev(l, ls) IN Continue(h.l, editSet(h.ls, h.s))
editHistoryNext(l, ls) ==
  LET h == historyNext(l, ls) IN Continue(h.l, editSet(h.ls, h.s))

\* editEnter that appends nothing for the hotkey
editEnter_nosuffix(l, ls, r) == Return(historyPop(l, -1), ls, String(ls), ErrNil)

\* CR or the hotkey, lines 763-777
editEnter(l, ls, r) ==
  LET l1 == historyPop(l, -1)
      s == String(ls)
  IN IF r = l.hotkey THEN Return(l1, ls, s \o <<l.hotkey>>, ErrNil)
                     ELSE Return(l1, ls, s, ErrNil)

\* ESC, lines 782-832.  esc.blocked is the answer of would_block; s0, s1 and
\* s2 are the runes the timed reads give (s2 is read only after a digit).
editEscape(l, ls, esc) ==
  IF esc.blocked THEN Return(historyPop(l, -1), ls, <<>>, ErrNil)
  ELSE IF esc.s0 = 91 THEN
         IF esc.s1 >= 48 /\ esc.s1 <= 57 THEN
              IF esc.s2 = 126 /\ esc.s1 = 51 THEN Continue(l, editDelete(ls))
              ELSE Continue(l, ls)
         ELSE IF esc.s1 = 65 THEN editHistoryPrev(l, ls)
         ELSE IF esc.s1 = 66 THEN editHistoryNext(l, ls)
         ELSE IF esc.s1 = 67 THEN Continue(l, editMoveRight(ls))
         ELSE IF esc.s1 = 68 THEN Continue(l, editMoveLeft(ls))
         ELSE IF esc.s1 = 72 THEN Continue(l, editMoveHome(ls))
         ELSE IF esc.s1 = 70 THEN Continue(l, editMoveEnd(ls))
         ELSE Continue(l, ls)
  ELSE IF esc.s0 = 48 THEN
         IF esc.s1 = 72 THEN Continue(l, editMoveHome(ls))
         ELSE IF esc.s1 = 70 THEN Continue(l, editMoveEnd(ls))
         ELSE Continue(l, ls)
  ELSE Continue(l, ls)

\* editCtrlC that abandons the line the way a lone ESC does
editCtrlC_abandon(l, ls) == Return(historyPop(l, -1), ls, <<>>, ErrNil)

\* editCtrlD that leaves the history alone when it quits
editCtrlD_nopop(l, ls) ==
  IF Len(ls.buf) > 0 THEN Continue(l, editDelete(ls))
  ELSE Return(l, ls, <<>>, ErrQuit)

\* Ctrl-C and Ctrl-D, lines 839-850
editCtrlC(l, ls) == Return(l, ls, <<>>, ErrQuit)

editCtrlD(l, ls) ==
  IF Len(ls.buf) > 0 THEN Continue(l, editDelete(ls))
  ELSE Return(historyPop(l, -1), ls, <<>>, ErrQuit)

\* The dispatch on a rune r # KeycodeNull, lines 763-885.
editKey(l, ls, r, esc) ==
  IF r = KeycodeCR \/ r = l.hotkey THEN editEnter(l, ls, r)
  ELSE IF r = KeycodeBS THEN Continue(l, editBackspace(ls))
  ELSE IF r = KeycodeESC THEN editEscape(l, ls, esc)
  ELSE IF r = KeycodeCtrlA THEN Continue(l, editMoveHome(ls))
  ELSE IF r = KeycodeCtrlB THEN Continue(l, editMoveLeft(ls))
  ELSE IF r = KeycodeCtrlC THEN editCtrlC(l, ls)
  ELSE IF r = KeycodeCtrlD THEN editCtrlD(l, ls)
  ELSE IF r = KeycodeCtrlE THEN Continue(l, editMoveEnd(ls))
  ELSE IF r = KeycodeCtrlF THEN Continue(l, editMoveRight(ls))
  ELSE IF r = KeycodeCtrlH THEN Continue(l, editBackspace(ls))
  ELSE IF r = KeycodeCtrlK THEN Continue(l, delete_to_end(ls))
  ELSE IF r = KeycodeCtrlL THEN Continue(l, refresh_line(ls))
  ELSE IF r = KeycodeCtrlN THEN editHistoryNext(l, ls)
  ELSE IF r = KeycodeCtrlP THEN editHistoryPrev(l, ls)
  ELSE IF r = KeycodeCtrlT THEN Continue(l, editSwap(ls))
  ELSE IF r = KeycodeCtrlU THEN Continue(l, delete_line(ls))
  ELSE IF r = KeycodeCtrlW THEN Continue(l, delete_prev_word(ls))
  ELSE Continue(l, editInsert(ls, r))

\* ------------------------------------------------------------------------
\* The completion cycler (src/line.go:614-685)

\* The caller's completion callback, after the examples' (two candidates for
\* a line that starts with one letter, none otherwise), with a one-candidate
\* answer for the empty line: "a..." gives "aa" and "a a", "" gives "a".
completion(s) ==
  IF Len(s) >= 1 /\ s[1] = 97 THEN << <<97, 97>>, <<97, 32, 97>> >>
  ELSE IF Len(s) = 0 THEN << <<97>> >>
  ELSE <<>>

\* complete_line, lines 628-643: show the candidate at idx with the cursor at
\* its end, the line buffer staying as it is, or after the last candidate the
\* line buffer itself.
completeShow(ls, lc, idx) ==
  IF idx < Len(lc)
    THEN [ls EXCEPT !.shown = [buf |-> lc[idx + 1], pos |-> Len(lc[idx + 1])]]
    ELSE refresh_line(ls)

\* completeEscape that leaves the terminal as it is
completeEscape_noshow(ls, lc, idx) == ls

\* complete_line on a lone ESC, lines 657-661: re-show the original buffer
completeEscape(ls, lc, idx) == IF idx < Len(lc) THEN refresh_line(ls) ELSE ls

\* update the buffer: the candidate at idx becomes the line, when there is one
completeCommit(ls, lc, idx) ==
  IF idx < Len(lc) THEN [ls EXCEPT !.buf = lc[idx + 1], !.pos = Len(lc[idx + 1])]
  ELSE ls

\* completeNext that cycles through the candidates only
completeNext_nowrap(lc, idx) == (idx + 1) % Len(lc)

\* loop through the completions
completeNext(lc, idx) == (idx + 1) % (Len(lc) + 1)

\* ------------------------------------------------------------------------
\* State
\*   linenoise  the Linenoise object: history, history_maxlen, hotkey,
\*              completion_callback (TRUE when a callback is set), rawmode
\*              and savedmode
\*   file       the history file
\*   pc         where the caller is: "idle" (between calls), "edit" (Read is
\*              in the edit loop, about to read a rune), "complete" (the edit
\*              loop is in complete_line, about to read a rune), "loop" and
\*              "keycodes" (Loop and PrintKeycodes are about to read a rune),
\*              "panic" (a panic has left the call)
\*   linestate  the linestate of the Read in progress
\*   lc, idx    the candidates and the index of complete_line
\*   ret        what the last call returned, when it was Read: the string s,
\*              the error err, and the rune key that ended the line
\*   term       the process's terminal: whether stdin is a tty, TERM, the
\*              terminal attributes (mode), the lines waiting on stdin for
\*              a basic read and whether the stream ends in a read error
\*   run        the locals of Loop and PrintKeycodes
\*   dec        a utf8 decoder with the bytes fed to it and its results
\*   screen     the prompt, cols, oldpos and maxrows of the linestate and the
\*              multiline flag, with what the last refresh did: its anchors
\*              and where the bytes it wrote left the terminal's cursor
\* and, to state properties,
\*   call       the last history or Read call: op, and its argument line or n
\*   h0         the history list when that call was made
\*   typed      the runes the edit loop has handled since Read was called:
\*              runes holds them while Read was called with an empty init
\*              and each of them was a rune no key binding applies to
\*              (plain = TRUE); prevs counts them while each of them was a
\*              history-prev key, and is -1 after any other key or after
\*              more than MaxPrevs of them
\*   tabs       the TABs read by complete_line since it was entered
VARIABLES linenoise, file, pc, linestate, lc, idx, ret, call, h0, typed, tabs,
          term, run, dec, screen, cli

vars == <<linenoise, file, pc, linestate, lc, idx, ret, call, h0, typed, tabs,
          term, run, dec, screen, cli>>

NewLineNoise ==
  [history |-> <<>>, history_maxlen |-> DefaultHistoryMaxlen,
   hotkey |-> KeycodeNull, completion_callback |-> FALSE,
   rawmode |-> FALSE, savedmode |-> <<>>]

\* The process has a terminal with a known TERM on stdin, in its usual mode.
Terminal ==
  [isatty |-> TRUE, TERM |-> "xterm", mode |-> Cooked, stdin |-> <<>>, stdinerr |-> FALSE]

\* A decoder that has been fed no byte: u is the utf8, in the bytes fed to
\* add so far and out what add returned for each of them; fd holds the bytes
\* that the descriptor is still to give and rune what the last getRune
\* returned (empty before the first call).
NoDecode ==
  [u |-> NewUtf8, in |-> <<>>, out |-> <<>>, fd |-> <<>>, rune |-> <<>>, cu |-> NewUtf8]

\* The locals of Loop and PrintKeycodes (exit_key, r, rc, cmd), with the
\* terminal attributes at the entry of the call (attrs), the number of calls
\* of fn in the last pass of Loop and what the call gave (fn, f) and whether
\* Read printed the prompt.
NoRun ==
  [attrs |-> <<>>, exit_key |-> KeycodeNull, r |-> KeycodeNull, fn |-> 0,
   f |-> "none", rc |-> "none", cmd |-> <<0, 0, 0, 0>>, prompt |-> FALSE]

\* The screen of a linestate that has not been refreshed, as newLineState
\* leaves it with an empty prompt on a terminal of defaultCols columns:
\* b_start and b_end are the anchors of the last single-line refresh, row
\* and col the place of the terminal's cursor after the last refresh, from
\* the row and the column where the prompt was written, wrap whether the
\* terminal is to wrap before the next glyph, top the row of that prompt
\* from the row of the one before, and panic whether the refresh panicked;
\* hint is the hint of the hints callback (<<>> without one) and hinted the
\* bytes of it that the last refresh wrote.
NoScreen ==
  [prompt |-> <<>>, cols |-> defaultCols, mlmode |-> FALSE, oldpos |-> 0,
   maxrows |-> 0, b_start |-> 0, b_end |-> 0, row |-> 0, col |-> 0,
   wrap |-> FALSE, top |-> 0, panic |-> FALSE, hint |-> <<>>, hinted |-> <<>>]

\* NewCLI returns a new CLI object (src/cli.go:450-470).  line is the line
\* that the last Run read, out what that Run put to the user, calls the
\* leaf functions that it called, cmdIndices what the last completion split
\* its line into, and runs the number of the calls of Run.
NewCLI ==
  [currentLine |-> <<>>, nextLine |-> <<>>, running |-> TRUE, line |-> <<>>,
   out |-> <<>>, calls |-> <<>>, cmdIndices |-> <<>>, runs |-> 0]

NoReturn == [s |-> <<>>, err |-> "none", key |-> KeycodeNull]
NoCall == [op |-> "none", line |-> <<>>, n |-> 0]
NoTrace == [plain |-> FALSE, runes |-> <<>>, prevs |-> -1]
NoEsc == [blocked |-> FALSE, s0 |-> 0, s1 |-> 0, s2 |-> 0]
LoneEsc == [blocked |-> TRUE, s0 |-> 0, s1 |-> 0, s2 |-> 0]

Init ==
  /\ linenoise = NewLineNoise
  /\ file \in DiskFiles
  /\ pc = "idle"
  /\ linestate = newLineState
  /\ lc = <<>>
  /\ idx = 0
  /\ ret = NoReturn
  /\ call = NoCall
  /\ h0 = <<>>
  /\ typed = NoTrace
  /\ tabs = 0
  /\ term = Terminal
  /\ run = NoRun
  /\ dec = NoDecode
  /\ screen = NoScreen
  /\ cli = NewCLI

\* dec after a call of getRune on dec.u and dec.fd that gave g
decAfter(g) ==
  [dec EXCEPT !.u = g.u, !.fd = g.fd, !.rune = <<g.r>>,
              !.in = IF g.a = <<>> THEN @ ELSE Append(@, Head(dec.fd)),
              !.out = @ \o g.a]

\* ------------------------------------------------------------------------
\* The caller's calls between two Reads

\* A history call op(line, n) that takes the Linenoise to l1 and the file to f1.
HistoryCall(op, line, n, l1, f1) ==
  /\ pc = "idle"
  /\ linenoise' = l1
  /\ file' = f1
  /\ call' = [op |-> op, line |-> line, n |-> n]
  /\ h0' = linenoise.history
  /\ ret' = NoReturn
  /\ UNCHANGED <<pc, linestate, lc, idx, typed, tabs, term, run, dec, screen, cli>>

DoHistoryAdd ==
  \E line \in Lines :
    /\ Len(linenoise.history) <= MaxEntries
    /\ HistoryCall("HistoryAdd", line, 0, HistoryAdd(linenoise, line), file)

DoHistorySetMaxlen ==
  \E n \in -1..MaxHist :
    HistoryCall("HistorySetMaxlen", <<>>, n, HistorySetMaxlen(linenoise, n), file)

DoHistoryLoad ==
  HistoryCall("HistoryLoad", <<>>, 0, HistoryLoad(linenoise, file), file)

DoHistorySave ==
  HistoryCall("HistorySave", <<>>, 0, linenoise, HistorySave(linenoise, file))

SetHotkey ==
  \E key \in Hotkeys :
    /\ pc = "idle"
    /\ linenoise' = [linenoise EXCEPT !.hotkey = key]
    /\ UNCHANGED <<file, pc, linestate, lc, idx, ret, call, h0, typed, tabs, term,
                   run, dec, screen, cli>>

\* Read on a terminal with a supported TERM: read_raw enables raw mode and
\* enters edit, which runs up to its loop.
Read ==
  \E init \in Inits :
    LET m == enableRawMode(linenoise, term)
        e == editStart(m.l, init)
    IN
    /\ pc = "idle"
    /\ term.isatty
    /\ ~unsupported_term(term)
    /\ Len(linenoise.history) <= MaxEntries
    /\ pc' = "edit"
    /\ linenoise' = e.l
    /\ term' = m.term
    /\ run' = [NoRun EXCEPT !.attrs = <<term.mode>>, !.prompt = TRUE]
    /\ linestate' = e.ls
    /\ ret' = NoReturn
    /\ call' = [op |-> "Read", line |-> init, n |-> 0]
    /\ h0' = linenoise.history
    /\ typed' = [plain |-> (init = <<>>), runes |-> <<>>, prevs |-> 0]
    /\ UNCHANGED <<file, lc, idx, tabs, dec, screen, cli>>

\* ------------------------------------------------------------------------
\* The edit loop, one pass per step

\* The runes of "any other rune is inserted": not NUL, no bound control key,
\* not ESC, CR, the hotkey, nor TAB with a completion callback.
BoundKeys ==
  {KeycodeCtrlA, KeycodeCtrlB, KeycodeCtrlC, KeycodeCtrlD, KeycodeCtrlE,
   KeycodeCtrlF, KeycodeCtrlH, KeycodeCtrlK, KeycodeCtrlL, KeycodeCtrlN,
   KeycodeCtrlP, KeycodeCtrlT, KeycodeCtrlU, KeycodeCtrlW, KeycodeBS}
PlainRune(k) ==
  /\ k \notin BoundKeys \cup {KeycodeNull, KeycodeESC, KeycodeCR}
  /\ k # linenoise.hotkey
  /\ ~(k = KeycodeTAB /\ linenoise.completion_callback)

\* The history-prev keys: Ctrl-P and ESC [ A
HistoryPrevKey(k, esc) ==
  \/ k = KeycodeCtrlP
  \/ k = KeycodeESC /\ esc = Esc(91, 65, 0)

Trace(k, esc) ==
  LET plain == typed.plain /\ PlainRune(k)
      prevs == typed.prevs >= 0 /\ typed.prevs < MaxPrevs /\ HistoryPrevKey(k, esc)
  IN [plain |-> plain,
      runes |-> IF plain THEN Append(typed.runes, k) ELSE <<>>,
      prevs |-> IF prevs THEN typed.prevs + 1 ELSE -1]

\* The loop body has handled the rune k with the outcome o; when edit
\* returns, read_raw returns through its deferred disableRawMode.
Handled(k, esc, o) ==
  /\ lc' = <<>>
  /\ idx' = 0
  /\ tabs' = 0
  /\ IF o.done
       THEN /\ pc' = "idle"
            /\ linenoise' = disableRawMode(o.l, term).l
            /\ term' = disableRawMode(o.l, term).term
            /\ linestate' = newLineState
            /\ ret' = [s |-> o.s, err |-> o.err, key |-> k]
            /\ typed' = typed
       ELSE /\ pc' = "edit"
            /\ linenoise' = o.l
            /\ term' = term
            /\ linestate' = o.ls
            /\ ret' = ret
            /\ typed' = Trace(k, esc)
  /\ UNCHANGED <<file, call, h0, run, screen, cli>>

\* The same, for a rune whose bytes are not followed
Outcome(k, esc, o) == Handled(k, esc, o) /\ UNCHANGED dec

\* The edit loop reads the rune k and handles it.
EditKey(k, esc) ==
  /\ pc = "edit"
  /\ Outcome(k, esc, editKey(linenoise, linestate, k, esc))

\* getRune gives NUL (an incomplete or malformed code point): continue.
GetRuneNull ==
  /\ pc = "edit"
  /\ UNCHANGED vars

KeyEnter == EditKey(KeycodeCR, NoEsc)

KeyHotkey == linenoise.hotkey # KeycodeNull /\ EditKey(linenoise.hotkey, NoEsc)

KeyBackspace == \E k \in {KeycodeBS, KeycodeCtrlH} : EditKey(k, NoEsc)

\* ESC and nothing more within 20 ms
KeyEscape == EditKey(KeycodeESC, LoneEsc)

\* ESC and more
KeyEscapeSequence == \E esc \in EscSequences : EditKey(KeycodeESC, esc)

KeyCtrlA == EditKey(KeycodeCtrlA, NoEsc)
KeyCtrlB == EditKey(KeycodeCtrlB, NoEsc)
KeyCtrlC == EditKey(KeycodeCtrlC, NoEsc)
KeyCtrlD == EditKey(KeycodeCtrlD, NoEsc)
KeyCtrlE == EditKey(KeycodeCtrlE, NoEsc)
KeyCtrlF == EditKey(KeycodeCtrlF, NoEsc)
KeyCtrlK == EditKey(KeycodeCtrlK, NoEsc)
KeyCtrlL == EditKey(KeycodeCtrlL, NoEsc)
KeyCtrlN == EditKey(KeycodeCtrlN, NoEsc)
KeyCtrlP == EditKey(KeycodeCtrlP, NoEsc)
KeyCtrlT == EditKey(KeycodeCtrlT, NoEsc)
KeyCtrlU == EditKey(KeycodeCtrlU, NoEsc)
KeyCtrlW == EditKey(KeycodeCtrlW, NoEsc)

\* A rune of the typed alphabet
KeyRune ==
  \E k \in Runes :
    /\ Len(linestate.buf) < MaxLen
    /\ EditKey(k, NoEsc)

\* ------------------------------------------------------------------------
\* complete_line, one pass of its loop per step

\* TAB with a completion callback set: complete_line is entered.  With no
\* candidates it returns NUL at once and the edit loop continues.
KeyTab ==
  LET cands == completion(String(linestate)) IN
  /\ pc = "edit"
  /\ linenoise.completion_callback
  /\ typed' = Trace(KeycodeTAB, NoEsc)
  /\ IF Len(cands) = 0
       THEN UNCHANGED <<pc, linestate, lc, idx, cli>>
       ELSE /\ pc' = "complete"
            /\ linestate' = completeShow(linestate, cands, 0)
            /\ lc' = cands
            /\ idx' = 0
  /\ tabs' = 0
  /\ UNCHANGED <<linenoise, file, ret, call, h0, term, run, dec, screen, cli>>

\* complete_line returns the rune k to the edit loop, which handles it.
CompleteReturn(k, esc) ==
  /\ pc = "complete"
  /\ Outcome(k, esc, editKey(linenoise, completeCommit(linestate, lc, idx), k, esc))

\* complete_line returns NUL with the line buffer as it was and the terminal
\* as in ls: the edit loop continues.
Abandoned(ls) ==
  /\ pc = "complete"
  /\ pc' = "edit"
  /\ linestate' = ls
  /\ lc' = <<>>
  /\ idx' = 0
  /\ tabs' = 0
  /\ UNCHANGED <<linenoise, file, ret, call, h0, typed, term, run, screen, cli>>

\* The same, for a rune whose bytes are not followed
CompleteAbandon(ls) == Abandoned(ls) /\ UNCHANGED dec

\* TAB: the next candidate, or after the last one the original buffer
CompleteTab ==
  /\ pc = "complete"
  /\ tabs < MaxTabs
  /\ idx' = completeNext(lc, idx)
  /\ linestate' = completeShow(linestate, lc, completeNext(lc, idx))
  /\ tabs' = tabs + 1
  /\ UNCHANGED <<linenoise, file, pc, lc, ret, call, h0, typed, term, run, dec, screen, cli>>

\* getRune gives NUL: stop
CompleteNull == CompleteAbandon(linestate)

\* ESC and nothing more within 20 ms: the escape is not passed back
CompleteEscape == CompleteAbandon(completeEscape(linestate, lc, idx))

\* ESC and more: the candidate is committed and ESC goes back to the edit
\* loop, whose would_block finds the same pending input.  The sequences
\* offered here are cursor up, cursor left, delete and an unknown one.
CompleteEscSequences ==
  {Esc(91, 65, 0), Esc(91, 68, 0), Esc(91, 51, 126), Esc(90, 0, 0)}

CompleteEscapeSequence ==
  \E esc \in CompleteEscSequences : CompleteReturn(KeycodeESC, esc)

\* Any other rune: the candidate is committed and the rune goes back to the
\* edit loop.
CompleteKey ==
  \E k \in BoundKeys \cup {KeycodeCR, linenoise.hotkey} \cup Runes :
    /\ k # KeycodeNull
    /\ k \in Runes => Len(completeCommit(linestate, lc, idx).buf) < MaxLen
    /\ CompleteReturn(k, NoEsc)

\* ------------------------------------------------------------------------
\* Spec: the caller's calls from the construction on (the history methods,
\* SetHotkey and Read); the keys of a Read are the history navigation keys
\* and the keys that end the line.
KeyHistoryPrev ==
  \/ KeyCtrlP
  \/ EditKey(KeycodeESC, Esc(91, 65, 0))

KeyHistoryNext ==
  \/ KeyCtrlN
  \/ EditKey(KeycodeESC, Esc(91, 66, 0))

Next ==
  \/ DoHistoryAdd
  \/ DoHistorySetMaxlen
  \/ DoHistoryLoad
  \/ DoHistorySave
  \/ SetHotkey
  \/ Read
  \/ KeyHotkey
  \/ KeyHistoryPrev
  \/ KeyHistoryNext
  \/ KeyEnter
  \/ KeyEscape
  \/ KeyCtrlC
  \/ KeyCtrlD

Spec == Init /\ [][Next]_vars

\* ------------------------------------------------------------------------
\* SpecEdit: one Read under every key.  It starts where Read has entered the
\* edit loop, on a Linenoise the caller has configured: a hotkey or none, a
\* completion callback or none, no history or one entry, a capacity of 0 or
\* the default.
EditHistories == {<<>>, << <<97>> >>}

Configured ==
  {[history |-> h, history_maxlen |-> n, hotkey |-> key, completion_callback |-> fn,
    rawmode |-> FALSE, savedmode |-> <<>>] :
     h \in {e \in EditHistories : Len(e) <= MaxEntries}, n \in {0, DefaultHistoryMaxlen},
     key \in Hotkeys, fn \in BOOLEAN}

InitEdit ==
  \E l \in {c \in Configured : Len(c.history) <= c.history_maxlen}, init \in Inits :
    LET m == enableRawMode(l, Terminal)
        e == editStart(m.l, init)
    IN
    /\ term = m.term
    /\ run = [NoRun EXCEPT !.attrs = <<Terminal.mode>>, !.prompt = TRUE]
    /\ dec = NoDecode
    /\ screen = NoScreen
    /\ cli = NewCLI
    /\ linenoise = e.l
    /\ file = NoFile
    /\ pc = "edit"
    /\ linestate = e.ls
    /\ lc = <<>>
    /\ idx = 0
    /\ ret = NoReturn
    /\ call = [op |-> "Read", line |-> init, n |-> 0]
    /\ h0 = l.history
    /\ typed = [plain |-> (init = <<>>), runes |-> <<>>, prevs |-> 0]
    /\ tabs = 0

NextEdit ==
  \/ GetRuneNull
  \/ KeyEnter
  \/ KeyHotkey
  \/ KeyBackspace
  \/ KeyEscape
  \/ KeyEscapeSequence
  \/ KeyCtrlA
  \/ KeyCtrlB
  \/ KeyCtrlC
  \/ KeyCtrlD
  \/ KeyCtrlE
  \/ KeyCtrlF
  \/ KeyCtrlK
  \/ KeyCtrlL
  \/ KeyCtrlN
  \/ KeyCtrlP
  \/ KeyCtrlT
  \/ KeyCtrlU
  \/ KeyCtrlW
  \/ KeyRune
  \/ KeyTab
  \/ CompleteTab
  \/ CompleteNull
  \/ CompleteEscape
  \/ CompleteEscapeSequence
  \/ CompleteKey

SpecEdit == InitEdit /\ [][NextEdit]_vars

\* ------------------------------------------------------------------------
\* SpecType: one Read under the runes that are inserted, the cursor keys
\* Ctrl-B and Ctrl-F, and the keys that end the line.  The runes are a
\* letter, the space, the unbound control code BEL, TAB (inserted while no
\* completion callback is set), '?' (inserted while it is not the hotkey)
\* and a two-byte code point.
TypedRunes == {97, 32, 7, KeycodeTAB, keyHotKey, 233}

KeyTyped ==
  \E k \in TypedRunes :
    /\ PlainRune(k)
    /\ Len(linestate.buf) < MaxTyped
    /\ EditKey(k, NoEsc)

NextType ==
  \/ GetRuneNull
  \/ KeyTyped
  \/ KeyCtrlB
  \/ KeyCtrlF
  \/ KeyEnter
  \/ KeyHotkey

SpecType == InitEdit /\ [][NextType]_vars

\* ------------------------------------------------------------------------
\* Saving and loading: the history is any list of distinct lines that HistoryAdd
\* can have built from lines with letters, spaces and newlines, and the caller
\* saves it to the file and loads the file.

SavedRunes == {97, 32, KeycodeLF}

SavedLines == UNION {[1..n -> SavedRunes] : n \in 0..MaxLen}

SavedHistories ==
  {h \in UNION {[1..n -> SavedLines] : n \in 0..MaxEntries} :
     \A i, j \in 1..Len(h) : i # j => h[i] # h[j]}

InitFile ==
  /\ linenoise \in {[NewLineNoise EXCEPT !.history = h] : h \in SavedHistories}
  /\ file \in DiskFiles
  /\ pc = "idle"
  /\ linestate = newLineState
  /\ lc = <<>>
  /\ idx = 0
  /\ ret = NoReturn
  /\ call = NoCall
  /\ h0 = <<>>
  /\ typed = NoTrace
  /\ tabs = 0
  /\ term = Terminal
  /\ run = NoRun
  /\ dec = NoDecode
  /\ screen = NoScreen
  /\ cli = NewCLI

NextFile ==
  \/ DoHistorySave
  \/ DoHistoryLoad

SpecFile == InitFile /\ [][NextFile]_vars

\* ------------------------------------------------------------------------
\* Raw mode: the process has stdin on a terminal or not, some TERM, the
\* terminal in one of two modes and some lines waiting on stdin; the caller
\* has switched the history off and calls Read, Loop and PrintKeycodes.

Terms == {"xterm", "dumb", "cons25", "emacs"}
Stdins == {<<>>, << <<97>> >>, << <<97, 97>>, <<>> >>}
ExitKeys == {KeycodeCtrlD, KeycodeNull}
LoopRunes == {KeycodeNull, KeycodeCtrlD, 97}
KeycodeRunes == {KeycodeNull, 113, 117, 105, 116}
Quit == <<113, 117, 105, 116>>

InitRaw ==
  /\ linenoise = HistorySetMaxlen(NewLineNoise, 0)
  /\ file = NoFile
  /\ pc = "idle"
  /\ linestate = newLineState
  /\ lc = <<>>
  /\ idx = 0
  /\ ret = NoReturn
  /\ call = NoCall
  /\ h0 = <<>>
  /\ typed = NoTrace
  /\ tabs = 0
  /\ term \in [isatty : BOOLEAN, TERM : Terms, mode : {Cooked, NoEcho},
                stdin : Stdins, stdinerr : BOOLEAN]
  /\ run = NoRun
  /\ dec = NoDecode
  /\ screen = NoScreen
  /\ cli = NewCLI

\* A call that returns at once: Read without raw mode, or a Loop or a
\* PrintKeycodes that cannot enable raw mode.
Returns(op, t1, s, err, prompt, rc) ==
  /\ pc = "idle"
  /\ term' = t1
  /\ ret' = [s |-> s, err |-> err, key |-> KeycodeNull]
  /\ call' = [op |-> op, line |-> <<>>, n |-> 0]
  /\ run' = [NoRun EXCEPT !.attrs = <<term.mode>>, !.prompt = prompt, !.rc = rc]
  /\ UNCHANGED <<linenoise, file, pc, linestate, lc, idx, h0, typed, tabs, dec, screen, cli>>

\* Read when stdin is not a tty
ReadNotTty ==
  LET b == read_basic(term) IN
  /\ ~term.isatty
  /\ Returns("Read", b.term, b.s, b.err, FALSE, "none")

\* Read on a terminal that is not supported: the prompt and a basic read
ReadUnsupported ==
  LET b == read_basic(term) IN
  /\ term.isatty
  /\ unsupported_term(term)
  /\ Returns("Read", b.term, b.s, b.err, TRUE, "none")

\* A read or a select of getRune or a write of puts fails in the edit loop:
\* the panic leaves read_raw through its deferred disableRawMode.
EditPanic ==
  /\ pc = "edit"
  /\ pc' = "panic"
  /\ linenoise' = disableRawMode(linenoise, term).l
  /\ term' = disableRawMode(linenoise, term).term
  /\ UNCHANGED <<file, linestate, lc, idx, ret, call, h0, typed, tabs, run, dec, screen, cli>>

\* Loop up to its loop
Loop ==
  \E exit_key \in ExitKeys :
    LET m == enableRawMode(linenoise, term) IN
    IF m.err
      THEN Returns("Loop", term, <<>>, "none", FALSE, "false")
      ELSE /\ pc = "idle"
           /\ pc' = "loop"
           /\ linenoise' = m.l
           /\ term' = m.term
           /\ ret' = NoReturn
           /\ call' = [op |-> "Loop", line |-> <<>>, n |-> 0]
           /\ run' = [NoRun EXCEPT !.attrs = <<term.mode>>, !.exit_key = exit_key]
           /\ UNCHANGED <<file, linestate, lc, idx, h0, typed, tabs, dec, screen, cli>>

\* One pass of the loop of Loop
LoopPass ==
  \E r \in LoopRunes, f \in {"true", "false", "panic"} :
    LET o == loopPass(linenoise, term, run, r, f) IN
    /\ pc = "loop"
    /\ pc' = o.pc
    /\ linenoise' = o.l
    /\ term' = o.term
    /\ run' = o.run
    /\ UNCHANGED <<file, linestate, lc, idx, ret, call, h0, typed, tabs, dec, screen, cli>>

\* A read or a select of getRune fails in Loop or in PrintKeycodes: the
\* panic leaves the function.
GetRunePanic ==
  /\ pc \in {"loop", "keycodes"}
  /\ pc' = "panic"
  /\ run' = [run EXCEPT !.fn = 0, !.f = "none"]
  /\ UNCHANGED <<linenoise, file, linestate, lc, idx, ret, call, h0, typed, tabs, term,
                 dec, screen, cli>>

\* PrintKeycodes up to its loop
PrintKeycodes ==
  LET m == enableRawMode(linenoise, term) IN
  IF m.err
    THEN Returns("PrintKeycodes", term, <<>>, "none", FALSE, "none")
    ELSE /\ pc = "idle"
         /\ pc' = "keycodes"
         /\ linenoise' = m.l
         /\ term' = m.term
         /\ ret' = NoReturn
         /\ call' = [op |-> "PrintKeycodes", line |-> <<>>, n |-> 0]
         /\ run' = [NoRun EXCEPT !.attrs = <<term.mode>>]
         /\ UNCHANGED <<file, linestate, lc, idx, h0, typed, tabs, dec, screen, cli>>

\* One pass of the loop of PrintKeycodes: NUL is skipped, any other rune is
\* shown and shifted into cmd, and "quit" ends the loop.
KeycodesPass ==
  \E r \in KeycodeRunes :
    LET cmd == IF r = KeycodeNull THEN run.cmd ELSE Append(Tail(run.cmd), r)
        running == cmd # Quit
    IN
    /\ pc = "keycodes"
    /\ pc' = IF running THEN "keycodes" ELSE "idle"
    /\ run' = [run EXCEPT !.r = r, !.cmd = cmd]
    /\ linenoise' = IF running THEN linenoise ELSE disableRawMode(linenoise, term).l
    /\ term' = IF running THEN term ELSE disableRawMode(linenoise, term).term
    /\ UNCHANGED <<file, linestate, lc, idx, ret, call, h0, typed, tabs, dec, screen, cli>>

NextRaw ==
  \/ Read
  \/ ReadNotTty
  \/ ReadUnsupported
  \/ GetRuneNull
  \/ KeyRune
  \/ KeyEnter
  \/ KeyCtrlC
  \/ EditPanic
  \/ Loop
  \/ LoopPass
  \/ PrintKeycodes
  \/ KeycodesPass
  \/ GetRunePanic

SpecRaw == InitRaw /\ [][NextRaw]_vars

\* ------------------------------------------------------------------------
\* The decoder alone: a utf8 is fed up to MaxBytes bytes one by one.  The
\* bytes are those of "A", U+00E9 (C3 A9), U+20AC (E2 82 AC) and U+1F600
\* (F0 9F 98 80), with C0, ED, A0 and FF.

Bytes == {65, 195, 169, 226, 130, 172, 240, 159, 152, 128, 192, 237, 160, 255}

InitUtf8 ==
  /\ linenoise = NewLineNoise
  /\ file = NoFile
  /\ pc = "idle"
  /\ linestate = newLineState
  /\ lc = <<>>
  /\ idx = 0
  /\ ret = NoReturn
  /\ call = NoCall
  /\ h0 = <<>>
  /\ typed = NoTrace
  /\ tabs = 0
  /\ term = Terminal
  /\ run = NoRun
  /\ dec = NoDecode
  /\ screen = NoScreen
  /\ cli = NewCLI

AddByte ==
  \E c \in Bytes :
    LET a == add(dec.u, c) IN
    /\ Len(dec.in) < MaxBytes
    /\ dec' = [dec EXCEPT !.u = a.u, !.in = Append(@, c),
                           !.out = Append(@, [r |-> a.r, size |-> a.size])]
    /\ UNCHANGED <<linenoise, file, pc, linestate, lc, idx, ret, call, h0, typed,
                   tabs, term, run, screen, cli>>

NextUtf8 == AddByte

SpecUtf8 == InitUtf8 /\ [][NextUtf8]_vars

\* ------------------------------------------------------------------------
\* getRune alone: a descriptor holds up to MaxBytes bytes and getRune is
\* called on it with one utf8, as the edit loop calls it.  The bytes are NUL,
\* "A", and those of U+00E9 (C3 A9), U+20AC (E2 82 AC) and U+2C0A9
\* (F0 AC 82 A9), with FF.

FdBytes == {0, 65, 195, 169, 226, 130, 172, 240, 255}

InitRune ==
  /\ linenoise = NewLineNoise
  /\ file = NoFile
  /\ pc = "idle"
  /\ linestate = newLineState
  /\ lc = <<>>
  /\ idx = 0
  /\ ret = NoReturn
  /\ call = NoCall
  /\ h0 = <<>>
  /\ typed = NoTrace
  /\ tabs = 0
  /\ term = Terminal
  /\ run = NoRun
  /\ \E n \in 0..MaxBytes :
       \E fd \in [1..n -> FdBytes] : dec = [NoDecode EXCEPT !.fd = fd]
  /\ screen = NoScreen
  /\ cli = NewCLI

\* A call of getRune: g is what it gives
GetRune(g) ==
  /\ pc = "idle"
  /\ dec' = decAfter(g)
  /\ UNCHANGED <<linenoise, file, pc, linestate, lc, idx, ret, call, h0, typed,
                 tabs, term, run, screen, cli>>

\* getRune reads a byte: without a timeout, or the select found the
\* descriptor readable.
GetRuneRead ==
  /\ Len(dec.fd) > 0
  /\ GetRune(getRune(dec.u, dec.fd, TRUE))

\* getRune with a timeout, and nothing is readable within it
GetRuneTimeout == GetRune(getRune(dec.u, dec.fd, FALSE))

\* The select or the read of getRune fails: panic
GetRuneError ==
  /\ pc = "idle"
  /\ pc' = "panic"
  /\ UNCHANGED <<linenoise, file, linestate, lc, idx, ret, call, h0, typed, tabs,
                 term, run, dec, screen, cli>>

NextRune == GetRuneRead \/ GetRuneTimeout \/ GetRuneError

SpecRune == InitRune /\ [][NextRune]_vars

\* ------------------------------------------------------------------------
\* SpecErase: one Read whose edit loop takes its runes from the bytes of the
\* descriptor through getRune, with the default configuration.  The bytes
\* are "a", the space, those of U+00E9 (C3 A9), and the keys Backspace,
\* Ctrl-D, Ctrl-B and Ctrl-W; dec.in holds the bytes read so far.

EraseBytes ==
  {97, 32, 195, 169, KeycodeBS, KeycodeCtrlD, KeycodeCtrlB, KeycodeCtrlW}

InitErase ==
  \E init \in Inits, n \in 0..MaxBytes :
    \E fd \in [1..n -> EraseBytes] :
      LET m == enableRawMode(NewLineNoise, Terminal)
          e == editStart(m.l, init)
      IN
      /\ term = m.term
      /\ run = [NoRun EXCEPT !.attrs = <<Terminal.mode>>, !.prompt = TRUE]
      /\ dec = [NoDecode EXCEPT !.fd = fd]
      /\ screen = NoScreen
      /\ cli = NewCLI
      /\ linenoise = e.l
      /\ file = NoFile
      /\ pc = "edit"
      /\ linestate = e.ls
      /\ lc = <<>>
      /\ idx = 0
      /\ ret = NoReturn
      /\ call = [op |-> "Read", line |-> init, n |-> 0]
      /\ h0 = <<>>
      /\ typed = [plain |-> (init = <<>>), runes |-> <<>>, prevs |-> 0]
      /\ tabs = 0

\* One pass of the edit loop (src/line.go:755-885): getRune reads a byte,
\* and the loop continues on NUL or handles the rune; after ESC it reads
\* the runes of the escape sequence from the same descriptor, and on TAB
\* with a completion callback it enters complete_line, with a new decoder.
EditByte ==
  LET g == getRune(dec.u, dec.fd, TRUE)
      e == readEscape(g.u, g.fd)
      read == Len(g.fd) - Len(e.fd)
      cands == completion(String(linestate))
  IN
  /\ pc = "edit"
  /\ Len(dec.fd) > 0
  /\ IF g.r = KeycodeNull
       THEN /\ dec' = decAfter(g)
            /\ UNCHANGED <<linenoise, file, pc, linestate, lc, idx, ret, call, h0,
                           typed, tabs, term, run, screen, cli>>
     ELSE IF g.r = KeycodeTAB /\ linenoise.completion_callback
       THEN /\ dec' = [decAfter(g) EXCEPT !.cu = NewUtf8]
            /\ typed' = Trace(KeycodeTAB, NoEsc)
            /\ IF Len(cands) = 0
                 THEN UNCHANGED <<pc, linestate, lc, idx, cli>>
                 ELSE /\ pc' = "complete"
                      /\ linestate' = completeShow(linestate, cands, 0)
                      /\ lc' = cands
                      /\ idx' = 0
            /\ tabs' = 0
            /\ UNCHANGED <<linenoise, file, ret, call, h0, term, run, screen, cli>>
     ELSE IF g.r = KeycodeESC
       THEN /\ dec' = [decAfter(g) EXCEPT !.u = e.u, !.fd = e.fd,
                                          !.in = @ \o Slice(g.fd, 0, read),
                                          !.out = @ \o e.a]
            /\ Handled(g.r, e.esc, editKey(linenoise, linestate, g.r, e.esc))
       ELSE /\ dec' = decAfter(g)
            /\ Handled(g.r, NoEsc, editKey(linenoise, linestate, g.r, NoEsc))

\* One pass of the loop of complete_line (src/line.go:644-681): its getRune
\* reads a byte with the decoder of complete_line (dec.cu); NUL stops, TAB
\* shows the next candidate, a lone ESC re-shows the line and gives NUL to
\* the edit loop, and any other rune, ESC with more to read too, commits
\* the candidate and goes to the edit loop, which handles it.
CompleteByte ==
  LET g == getRune(dec.cu, dec.fd, TRUE)
      e == readEscape(dec.u, g.fd)
      read == Len(g.fd) - Len(e.fd)
      d == [dec EXCEPT !.cu = g.u, !.fd = g.fd, !.rune = <<g.r>>,
                       !.in = Append(@, Head(dec.fd)), !.out = @ \o g.a]
      committed == completeCommit(linestate, lc, idx)
  IN
  /\ pc = "complete"
  /\ Len(dec.fd) > 0
  /\ IF g.r = KeycodeNull
       THEN dec' = d /\ Abandoned(linestate)
     ELSE IF g.r = KeycodeTAB
       THEN /\ dec' = d
            /\ idx' = completeNext(lc, idx)
            /\ linestate' = completeShow(linestate, lc, completeNext(lc, idx))
            /\ tabs' = tabs + 1
            /\ UNCHANGED <<linenoise, file, pc, lc, ret, call, h0, typed, term, run,
                           screen, cli>>
     ELSE IF g.r = KeycodeESC /\ Len(g.fd) = 0
       THEN dec' = d /\ Abandoned(completeEscape(linestate, lc, idx))
     ELSE IF g.r = KeycodeESC
       THEN /\ dec' = [d EXCEPT !.u = e.u, !.fd = e.fd,
                                !.in = @ \o Slice(g.fd, 0, read), !.out = @ \o e.a]
            /\ Handled(g.r, e.esc, editKey(linenoise, committed, g.r, e.esc))
       ELSE /\ dec' = d
            /\ Handled(g.r, NoEsc, editKey(linenoise, committed, g.r, NoEsc))

NextErase == EditByte \/ EditPanic

SpecErase == InitErase /\ [][NextErase]_vars

\* ------------------------------------------------------------------------
\* SpecEsc: one Read, on a configured Linenoise, whose descriptor holds the
\* bytes of one escape sequence, after an "a" or after nothing.  The
\* sequences are ESC alone, the recognised ESC [ A, ESC [ D, ESC [ 3 ~ and
\* ESC 0 H, and ESC x, ESC [ Z, ESC O P, ESC [ 1 ~, ESC [ 1 5 ~ and
\* ESC [ 1 ; 5 C, which are not; or it holds 1 to MaxTabs TABs and then ESC
\* alone, ESC [ D, CR or a byte that is no rune (FF).

EscPrefixes == {<<>>, <<97>>}
KnownEscapes ==
  {<<27, 91, 65>>, <<27, 91, 68>>, <<27, 91, 51, 126>>, <<27, 48, 72>>}
UnknownEscapes ==
  {<<27, 120>>, <<27, 91, 90>>, <<27, 79, 80>>, <<27, 91, 49, 126>>,
   <<27, 91, 49, 53, 126>>, <<27, 91, 49, 59, 53, 67>>}
Tabs(n) == [i \in 1..n |-> KeycodeTAB]
TabInputs ==
  {Tabs(n) \o end : n \in 1..MaxTabs,
                    end \in {<<27>>, <<27, 91, 68>>, <<KeycodeCR>>, <<255>>}}

InitEsc ==
  \E l \in {c \in Configured : Len(c.history) <= c.history_maxlen}, init \in Inits,
     pre \in EscPrefixes,
     seq \in {<<27>>} \cup KnownEscapes \cup UnknownEscapes \cup TabInputs :
    LET m == enableRawMode(l, Terminal)
        e == editStart(m.l, init)
    IN
    /\ term = m.term
    /\ run = [NoRun EXCEPT !.attrs = <<Terminal.mode>>, !.prompt = TRUE]
    /\ dec = [NoDecode EXCEPT !.fd = pre \o seq]
    /\ screen = NoScreen
    /\ cli = NewCLI
    /\ linenoise = e.l
    /\ file = NoFile
    /\ pc = "edit"
    /\ linestate = e.ls
    /\ lc = <<>>
    /\ idx = 0
    /\ ret = NoReturn
    /\ call = [op |-> "Read", line |-> init, n |-> 0]
    /\ h0 = l.history
    /\ typed = [plain |-> (init = <<>>), runes |-> <<>>, prevs |-> 0]
    /\ tabs = 0

NextEsc == EditByte \/ CompleteByte

SpecEsc == InitEsc /\ [][NextEsc]_vars

\* ------------------------------------------------------------------------
\* SpecRefresh: one Read on a terminal whose number of columns is what
\* getColumns gives (0 to MaxCols, or defaultCols), in single-line
\* or in multiline mode, with a prompt of 0 to 2 columns: the line is set to
\* the initial string and then edited by inserts, Backspace and cursor
\* moves, each of which refreshes the screen.  The runes inserted are "a",
\* the wide U+4E16 and the combining U+0301.

Prompts == {<<>>, <<62>>, <<62, 32>>}
PaintRunes == {97, 19990, 769}

\* What the window-size ioctl gives: an error (ENOTTY, 25) or a column count
Winsizes == [err : {0, 25}, col : 0..MaxCols]

\* The replies to a cursor position query: none, ESC [ 1 ; c R with c one
\* of 0, 1, 4, -1 and x, and ESC [ 1 0 4 R.
Reply(c) == <<KeycodeESC, 91, 49, 59>> \o c \o <<82>>
Replies ==
  {<<>>, Reply(<<48>>), Reply(<<49>>), Reply(<<52>>), Reply(<<45, 49>>),
   Reply(<<120>>), <<KeycodeESC, 91, 49, 48, 52, 82>>}

\* The column counts that getColumns gives for them
ColumnCounts ==
  {getColumns(w, start, cols) : w \in Winsizes, start \in Replies, cols \in Replies}

\* The hints: none, "ab", and U+4E16 (the bytes E4 B8 96) followed by "a"
Hints == {<<>>, <<97, 98>>, <<228, 184, 150, 97>>}

\* The edit loop after a refresh that gave the screen sc: a panic leaves
\* read_raw through its deferred disableRawMode.
AfterRefresh(l, t, sc) ==
  IF sc.panic
    THEN [pc |-> "panic", l |-> disableRawMode(l, t).l, term |-> disableRawMode(l, t).term]
    ELSE [pc |-> "edit", l |-> l, term |-> t]

InitRefresh ==
  \E prompt \in Prompts, cols \in ColumnCounts, mlmode \in BOOLEAN, init \in Inits,
     hint \in Hints :
    LET m == enableRawMode(NewLineNoise, Terminal)
        e == editStart(m.l, init)
        sc == refresh([NoScreen EXCEPT !.prompt = prompt, !.cols = cols,
                                       !.mlmode = mlmode, !.hint = hint], e.ls)
        a == AfterRefresh(e.l, m.term, sc)
    IN
    /\ term = a.term
    /\ run = [NoRun EXCEPT !.attrs = <<Terminal.mode>>, !.prompt = TRUE]
    /\ dec = NoDecode
    /\ screen = sc
    /\ cli = NewCLI
    /\ linenoise = a.l
    /\ file = NoFile
    /\ pc = a.pc
    /\ linestate = e.ls
    /\ lc = <<>>
    /\ idx = 0
    /\ ret = NoReturn
    /\ call = [op |-> "Read", line |-> init, n |-> 0]
    /\ h0 = <<>>
    /\ typed = [plain |-> (init = <<>>), runes |-> <<>>, prevs |-> 0]
    /\ tabs = 0

\* An edit operation changes the linestate to ls and refreshes the screen.
Painted(ls) ==
  LET sc == refresh(screen, ls)
      a == AfterRefresh(linenoise, term, sc)
  IN
  /\ pc = "edit"
  /\ ls # linestate
  /\ linestate' = ls
  /\ screen' = sc
  /\ pc' = a.pc
  /\ linenoise' = a.l
  /\ term' = a.term
  /\ UNCHANGED <<file, lc, idx, ret, call, h0, typed, tabs, run, dec, cli>>

PaintInsert ==
  \E r \in PaintRunes :
    /\ Len(linestate.buf) < MaxBuf
    /\ Painted(editInsert(linestate, r))

PaintBackspace == Painted(editBackspace(linestate))

PaintMoveLeft == Painted(editMoveLeft(linestate))

PaintMoveRight == Painted(editMoveRight(linestate))

\* CR, lines 763-777: with a hints callback the line is refreshed without
\* hints, and edit returns the buffer.  The line state stays as edit left it.
PaintEnter ==
  LET o == editEnter(linenoise, linestate, KeycodeCR)
      sc == IF screen.hint = <<>> THEN screen
            ELSE [refresh([screen EXCEPT !.hint = <<>>], linestate)
                    EXCEPT !.hint = screen.hint]
  IN
  /\ pc = "edit"
  /\ screen' = sc
  /\ pc' = IF sc.panic THEN "panic" ELSE "idle"
  /\ linenoise' = disableRawMode(o.l, term).l
  /\ term' = disableRawMode(o.l, term).term
  /\ ret' = IF sc.panic THEN ret ELSE [s |-> o.s, err |-> o.err, key |-> KeycodeCR]
  /\ UNCHANGED <<file, lc, idx, linestate, call, h0, typed, tabs, run, dec, cli>>

NextRefresh ==
  PaintInsert \/ PaintBackspace \/ PaintMoveLeft \/ PaintMoveRight \/ PaintEnter

SpecRefresh == InitRefresh /\ [][NextRefresh]_vars

\* ------------------------------------------------------------------------
\* The command line interface (src/cli.go).  A menu is a sequence of items;
\* an item has a name and either a submenu or a leaf function, which has
\* its own argument help or none.  The leaf functions are those of the
\* example program: one that puts its arguments and one that exits.

Submenu(name, menu) == [name |-> name, menu |-> menu, leaf |-> "", help |-> FALSE]
Command(name, leaf, help) == [name |-> name, menu |-> <<>>, leaf |-> leaf, help |-> help]

\* The root of the menus: a submenu ss with the commands x and xs, and the
\* commands sx and x.
Root ==
  << Submenu(<<115, 115>>,
             << Command(<<120>>, "a0", TRUE), Command(<<120, 115>>, "a2", FALSE) >>),
     Command(<<115, 120>>, "exit", FALSE),
     Command(<<120>>, "a1", TRUE) >>

HasPrefix(s, prefix) ==
  Len(s) >= Len(prefix) /\ SubSeq(s, 1, Len(prefix)) = prefix

\* strings.Split(s, " "): the pieces of s between its spaces, empty ones too
RECURSIVE Split(_, _)
Split(s, piece) ==
  IF Len(s) = 0 THEN <<piece>>
  ELSE IF Head(s) = 32 THEN <<piece>> \o Split(Tail(s), <<>>)
  ELSE Split(Tail(s), Append(piece, Head(s)))

\* repeat(' ', n)
Spaces(n) == [i \in 1..n |-> 32]

\* splitIndex that does not end the string with a space
RECURSIVE splitLoop(_, _, _, _, _)
splitIndex_nopad(s) == splitLoop(Decode(s), 0, TRUE, 0, <<>>)

\* The loop of splitIndex, lines 201-211, over the runes that are left of
\* the range: i is the byte index of the next one.
splitLoop(d, i, ws, start, indices) ==
  IF Len(d) = 0 THEN indices
  ELSE LET c == Head(d).r
           j == i + Head(d).size
       IN IF ~ws /\ c = 32
            THEN splitLoop(Tail(d), j, TRUE, start, Append(indices, <<start, i>>))
          ELSE IF ws /\ c # 32
            THEN splitLoop(Tail(d), j, FALSE, i, indices)
          ELSE splitLoop(Tail(d), j, ws, start, indices)

\* Split a string on whitespace and return the substring indices.
splitIndex(s) == splitLoop(Decode(s \o <<32>>), 0, TRUE, 0, <<>>)

\* Return the list of line completions.
completions(line, cmd, names, minlen) ==
  LET line1 == IF cmd = <<>> /\ line # <<>> THEN line \o <<32>> ELSE line
      Padded(s) ==
        LET pad == minlen - StringWidth(StringRunes(s)) IN
        IF pad > 0 THEN s \o Spaces(pad) ELSE s
  IN [i \in 1..Len(names) |->
        Padded(line1 \o SubSeq(names[i], Len(cmd) + 1, Len(names[i])))]

\* Return a list of menu names.
menuNames(menu) == [i \in 1..Len(menu) |-> menu[i].name]

\* The items of menu whose name starts with cmd
Matches(menu, cmd) == SelectSeq(menu, LAMBDA item : HasPrefix(item.name, cmd))

\* completionCallback, lines 319-356, from the token at cmdIndices[k] on;
\* no completions (nil) is the empty list.
RECURSIVE completionLoop(_, _, _, _)
completionLoop(cmdLine, cmdIndices, k, menu) ==
  IF k > Len(cmdIndices)
    THEN completions(IF k = 1 THEN <<>> ELSE Slice(cmdLine, 0, cmdIndices[k - 1][2]),
                     <<>>, menuNames(menu), Len(cmdLine))
  ELSE LET cmd == Slice(cmdLine, cmdIndices[k][1], cmdIndices[k][2])
           line == Slice(cmdLine, 0, cmdIndices[k][2])
           matches == Matches(menu, cmd)
       IN IF Len(matches) = 0 THEN <<>>
          ELSE IF Len(matches) = 1
            THEN IF Len(cmd) < Len(matches[1].name)
                   THEN completions(line, cmd, menuNames(matches), Len(cmdLine))
                 ELSE IF matches[1].leaf = ""
                   THEN completionLoop(cmdLine, cmdIndices, k + 1, matches[1].menu)
                 ELSE <<>>
          ELSE completions(line, cmd, menuNames(matches), Len(cmdLine))

\* Return a slice of line completion strings for the command line.
completionCallback(cmdLine) == completionLoop(cmdLine, splitIndex(cmdLine), 1, Root)

\* What the CLI puts to the user: the help of the commands of a menu that
\* start with cmd, the help of a leaf function, a parse error under the
\* token idx, or the request for more input.
PutCommandHelp(cmd, menu, tok) ==
  [op |-> "commandHelp", idx |-> tok, names |-> menuNames(Matches(menu, cmd))]
PutFunctionHelp(item, tok) ==
  [op |-> "functionHelp", idx |-> tok, names |-> <<item.name>>]
PutError(msg, tok) == [op |-> msg, idx |-> tok, names |-> <<>>]

\* The matches of parseCmdline, lines 385-396: an exact match is the only one
RECURSIVE parseMatches(_, _, _)
parseMatches(menu, cmd, matches) ==
  IF Len(menu) = 0 THEN matches
  ELSE IF Head(menu).name = cmd THEN <<Head(menu)>>
  ELSE IF HasPrefix(Head(menu).name, cmd)
    THEN parseMatches(Tail(menu), cmd, Append(matches, Head(menu)))
  ELSE parseMatches(Tail(menu), cmd, matches)

\* A leaf function of the example: exit stops the CLI, the others put their
\* arguments.
callLeaf(c, leaf, args) ==
  LET c1 == [c EXCEPT !.calls = Append(@, [leaf |-> leaf, args |-> args])] IN
  IF leaf = "exit" THEN [c1 EXCEPT !.running = FALSE]
  ELSE [c1 EXCEPT !.out = Append(@, PutError("arguments", Len(args)))]

\* parseCmdline that gives the help and then goes on to parse the line
RECURSIVE parseLoop(_, _, _, _, _, _)
RECURSIVE parseLoop_nohelp(_, _, _, _, _, _)
parseLoop_nohelp(c, l, line, cmdList, tok, menu) ==
  IF tok >= Len(cmdList)
    THEN [cli |-> [c EXCEPT !.out = Append(@, PutError("additional input needed", tok))],
          ln |-> l, line |-> line]
  ELSE LET cmd == cmdList[tok + 1]
           matches == parseMatches(menu, cmd, <<>>)
       IN IF Len(matches) = 0
            THEN [cli |-> [c EXCEPT !.out = Append(@, PutError("unknown command", tok))],
                  ln |-> HistoryAdd(l, TrimSpace(line)), line |-> <<>>]
          ELSE IF Len(matches) = 1
            THEN IF matches[1].leaf = ""
                   THEN parseLoop_nohelp(c, l, line, cmdList, tok + 1, matches[1].menu)
                 ELSE LET c1 == callLeaf(c, matches[1].leaf, Slice(cmdList, tok + 1, Len(cmdList)))
                      IN [cli |-> c1, ln |-> HistoryAdd(l, TrimSpace(line)), line |-> <<>>]
          ELSE [cli |-> [c EXCEPT !.out = Append(@, PutError("ambiguous command", tok))],
                ln |-> l, line |-> <<>>]

\* The loop of parseCmdline, lines 375-444, from the token idx (tok) of cmdList
\* on: the CLI, the Linenoise and the string that is returned.
parseLoop(c, l, line, cmdList, tok, menu) ==
  IF tok >= Len(cmdList)
    THEN [cli |-> [c EXCEPT !.out = Append(@, PutError("additional input needed", tok))],
          ln |-> l, line |-> line]
  ELSE LET cmd == cmdList[tok + 1]
           matches == parseMatches(menu, cmd, <<>>)
       IN IF cmd[Len(cmd)] = 63
            THEN [cli |-> [c EXCEPT !.out =
                     Append(@, PutCommandHelp(Slice(cmd, 0, Len(cmd) - 1), menu, tok))],
                  ln |-> l, line |-> Slice(line, 0, Len(line) - 1)]
          ELSE IF Len(matches) = 0
            THEN [cli |-> [c EXCEPT !.out = Append(@, PutError("unknown command", tok))],
                  ln |-> HistoryAdd(l, TrimSpace(line)), line |-> <<>>]
          ELSE IF Len(matches) = 1
            THEN IF matches[1].leaf = ""
                   THEN parseLoop(c, l, line, cmdList, tok + 1, matches[1].menu)
                 ELSE LET args == Slice(cmdList, tok + 1, Len(cmdList))
                          lastArg == args[Len(args)]
                      IN IF Len(args) # 0 /\ lastArg[Len(lastArg)] = 63
                           THEN [cli |-> [c EXCEPT !.out =
                                    Append(@, PutFunctionHelp(matches[1], Len(cmdList) - 1))],
                                 ln |-> l, line |-> Slice(line, 0, Len(line) - 1)]
                         ELSE LET c1 == callLeaf(c, matches[1].leaf, args) IN
                              IF c1.nextLine # <<>>
                                THEN [cli |-> [c1 EXCEPT !.nextLine = <<>>],
                                      ln |-> l, line |-> c1.nextLine]
                              ELSE [cli |-> c1, ln |-> HistoryAdd(l, TrimSpace(line)),
                                    line |-> <<>>]
          ELSE [cli |-> [c EXCEPT !.out = Append(@, PutError("ambiguous command", tok))],
                ln |-> l, line |-> <<>>]

\* Parse and process the current command line.
\* Return a string for the new command line.
parseCmdline(c, l, line) ==
  LET cmdList == SelectSeq(Split(line, <<>>), LAMBDA s : Len(s) # 0) IN
  IF Len(cmdList) = 0 THEN [cli |-> c, ln |-> l, line |-> <<>>]
  ELSE parseLoop(c, l, line, cmdList, 0, Root)

\* ------------------------------------------------------------------------
\* SpecCli: the CLI of the example runs: each Run reads a line, any line of
\* at most MaxLine bytes that the user can leave in the editor, or fails
\* to read one, and parses it.  Read is what the other specifications
\* model; here it is its result.

RECURSIVE Strings(_, _)
Strings(alphabet, n) ==
  IF n = 0 THEN {<<>>}
  ELSE LET shorter == Strings(alphabet, n - 1) IN
       shorter \cup {Append(s, c) : s \in {t \in shorter : Len(t) = n - 1}, c \in alphabet}

\* space, ?, s and x
CmdLines == Strings({32, 63, 115, 120}, MaxLine)

InitCli ==
  /\ linenoise = [NewLineNoise EXCEPT !.hotkey = 63, !.completion_callback = TRUE]
  /\ file = NoFile
  /\ pc = "idle"
  /\ linestate = newLineState
  /\ lc = <<>>
  /\ idx = 0
  /\ ret = NoReturn
  /\ call = NoCall
  /\ h0 = <<>>
  /\ typed = NoTrace
  /\ tabs = 0
  /\ term = Terminal
  /\ run = NoRun
  /\ dec = NoDecode
  /\ screen = NoScreen
  /\ cli = NewCLI

\* Run gets and processes a CLI command.
RunLine ==
  \E line \in CmdLines :
    LET c == [cli EXCEPT !.line = line, !.out = <<>>, !.calls = <<>>, !.runs = @ + 1]
        p == parseCmdline(c, linenoise, line)
    IN /\ cli.running
       /\ cli.runs < MaxRuns
       /\ cli' = [p.cli EXCEPT !.currentLine = p.line]
       /\ linenoise' = p.ln
       /\ h0' = linenoise.history
       /\ ret' = [s |-> line, err |-> ErrNil, key |-> KeycodeNull]
       /\ UNCHANGED <<file, pc, linestate, lc, idx, call, typed, tabs, term, run, dec,
                      screen>>

\* exit: ctrl-C/ctrl-D
RunQuit ==
  /\ cli.running
  /\ cli.runs < MaxRuns
  /\ cli' = [cli EXCEPT !.running = FALSE, !.line = <<>>, !.out = <<>>, !.calls = <<>>,
                        !.runs = @ + 1]
  /\ h0' = linenoise.history
  /\ ret' = [s |-> <<>>, err |-> ErrQuit, key |-> KeycodeNull]
  /\ UNCHANGED <<linenoise, file, pc, linestate, lc, idx, call, typed, tabs, term, run,
                 dec, screen>>

NextCli == RunLine \/ RunQuit

SpecCli == InitCli /\ [][NextCli]_vars

\* ------------------------------------------------------------------------
\* SpecSplit: the completion callback on any line of at most MaxLine bytes:
\* space, ?, s, x and the bytes of U+4E16, whole or not.

SplitLines == Strings({32, 63, 115, 120, 228, 184, 150}, MaxLine)

InitSplit ==
  \E line \in SplitLines :
    /\ linenoise = [NewLineNoise EXCEPT !.hotkey = 63, !.completion_callback = TRUE]
    /\ file = NoFile
    /\ pc = "idle"
    /\ linestate = newLineState
    /\ lc = <<>>
    /\ idx = 0
    /\ ret = NoReturn
    /\ call = NoCall
    /\ h0 = <<>>
    /\ typed = NoTrace
    /\ tabs = 0
    /\ term = Terminal
    /\ run = NoRun
    /\ dec = NoDecode
    /\ screen = NoScreen
    /\ cli = [NewCLI EXCEPT !.line = line]

\* The completion callback is called with the line of the editor.
CompletionCallback ==
  /\ call.op = "none"
  /\ call' = [op |-> "completionCallback", line |-> cli.line, n |-> 0]
  /\ cli' = [cli EXCEPT !.cmdIndices = splitIndex(cli.line)]
  /\ lc' = completionCallback(cli.line)
  /\ UNCHANGED <<linenoise, file, pc, linestate, idx, ret, h0, typed, tabs, term, run,
                 dec, screen>>

NextSplit == CompletionCallback

SpecSplit == InitSplit /\ [][NextSplit]_vars

\* ------------------------------------------------------------------------
\* Properties

\* C1: after the edit loop has handled any keystroke, the cursor is within
\* the buffer: 0 <= pos <= len(buf).
C1_CursorInRange ==
  0 <= linestate.pos /\ linestate.pos <= Len(linestate.buf)

\* A line recalled from the history was extended and the cursor moved back
\* into it.
C1_Witness ==
  /\ pc = "edit"
  /\ linestate.history_idx = 1
  /\ Len(linestate.buf) = 2
  /\ linestate.pos = 1

\* C2: from an empty initial buffer, runes that no key binding applies to
\* (unbound control codes included) are each inserted at pos with pos
\* advancing by one, and CR after them makes Read return exactly the runes
\* read, in order, with no error.
C2_TypedLineReturned ==
  /\ [](pc = "edit" /\ typed.plain =>
          linestate.buf = typed.runes /\ linestate.pos = Len(typed.runes))
  /\ [](pc = "idle" /\ typed.plain /\ ret.key = KeycodeCR =>
          ret.s = typed.runes /\ ret.err = ErrNil)
  /\ [][\A k \in TypedRunes :
          PlainRune(k) /\ EditKey(k, NoEsc) =>
            /\ pc' = "edit"
            /\ linestate'.buf = InsertAt(linestate.buf, linestate.pos, k)
            /\ linestate'.pos = linestate.pos + 1]_vars

\* BEL, a two-byte code point and a letter were typed and returned by CR.
C2_Witness ==
  /\ pc = "idle"
  /\ ret.key = KeycodeCR
  /\ typed.plain
  /\ typed.runes = <<7, 233, 97>>
  /\ ret.s = <<7, 233, 97>>
  /\ ret.err = ErrNil

\* C3: with a hotkey configured, reading the hotkey rune ends the line: Read
\* returns the buffer with the hotkey rune appended and no error, the hotkey
\* rune is never in the buffer, and a line ended by CR is returned with
\* nothing appended.
C3_HotkeyEndsLine ==
  /\ [](linenoise.hotkey # KeycodeNull =>
          ~Contains(linestate.buf, linenoise.hotkey))
  /\ [][/\ KeyHotkey =>
            /\ pc' = "idle"
            /\ ret'.s = Append(linestate.buf, linenoise.hotkey)
            /\ ret'.err = ErrNil
        /\ KeyEnter =>
            /\ pc' = "idle"
            /\ ret'.s = linestate.buf
            /\ ret'.err = ErrNil]_vars

\* The hotkey ended the line "a".
C3_Witness ==
  /\ pc = "idle"
  /\ linenoise.hotkey = keyHotKey
  /\ ret.key = keyHotKey
  /\ ret.s = <<97, keyHotKey>>
  /\ ret.err = ErrNil

\* C4: a lone Escape makes Read return the empty string with no error, and
\* the history list after the return is the history list before the Read
\* call, for every history content, capacity and initial string.
C4_EscapeKeepsHistory ==
  pc = "idle" /\ ret.key = KeycodeESC =>
    /\ ret.s = <<>>
    /\ ret.err = ErrNil
    /\ linenoise.history = h0

\* C5: Ctrl-C read by the edit loop, from the terminal or from
\* complete_line, returns the empty string with the Quit error, whatever the
\* buffer contains.
C5_CtrlCQuits ==
  [][KeyCtrlC \/ (pc = "complete" /\ CompleteReturn(KeycodeCtrlC, NoEsc)) =>
       /\ pc' = "idle"
       /\ ret'.s = <<>>
       /\ ret'.err = ErrQuit]_vars

\* Ctrl-C was read with a typed line in the buffer.
C5_Witness ==
  /\ pc = "idle"
  /\ ret.key = KeycodeCtrlC
  /\ typed.plain
  /\ Len(typed.runes) = 2
  /\ ret.s = <<>>
  /\ ret.err = ErrQuit

\* C6: Ctrl-D with a non-empty buffer deletes the rune at pos (none when
\* pos is at the end) and editing continues; Ctrl-D with an empty buffer
\* removes the last history entry, the live buffer's, and returns the empty
\* string with Quit.
C6_CtrlDDeletesOrQuits ==
  [][KeyCtrlD =>
       IF Len(linestate.buf) > 0
         THEN /\ pc' = "edit"
              /\ linestate'.buf =
                   IF linestate.pos < Len(linestate.buf)
                     THEN RemoveAt(linestate.buf, linestate.pos)
                     ELSE linestate.buf
              /\ linestate'.pos = linestate.pos
              /\ linenoise' = linenoise
         ELSE /\ pc' = "idle"
              /\ ret'.s = <<>>
              /\ ret'.err = ErrQuit
              /\ linenoise'.history =
                   SubSeq(linenoise.history, 1, Len(linenoise.history) - 1)]_vars

\* Ctrl-D was read with an empty buffer, the live entry on top of one
\* history entry.
C6_Witness ==
  /\ pc = "idle"
  /\ ret.key = KeycodeCtrlD
  /\ ret.err = ErrQuit
  /\ Len(h0) = 1
  /\ linenoise.history = h0

\* C7: with a history of n >= 1 entries, none equal to the initial string,
\* k >= 1 history-prev keys and then CR make Read return the min(k, n)-th
\* most recent entry, and leave the history as it was for the Read that
\* follows.
C7_HistoryPrevReturnsEntry ==
  (/\ pc = "idle"
   /\ ret.key = KeycodeCR
   /\ typed.prevs >= 1
   /\ Len(h0) >= 1
   /\ ~Contains(h0, call.line)) =>
    /\ ret.err = ErrNil
    /\ ret.s = h0[Len(h0) + 1 - Min(typed.prevs, Len(h0))]
    /\ linenoise.history = h0

\* The runes that end a completion cycle in the formula of C8: CR, the
\* hotkey, Ctrl-C, backspace, Ctrl-A, Ctrl-K and the typed runes.
C8_Keys ==
  {KeycodeCR, keyHotKey, KeycodeCtrlC, KeycodeBS, KeycodeCtrlA, KeycodeCtrlK}
    \cup Runes

\* C8: TAB starts completion with the candidates lc; after j further TABs a
\* rune other than TAB, ESC and NUL makes the buffer lc[j mod (len(lc)+1)]
\* with pos at its end when that index is below len(lc), and leaves the
\* buffer otherwise; the edit loop then handles the rune as if it had just
\* read it, so that CR returns the committed candidate.
C8_CompletionCommits ==
  /\ [](pc = "complete" =>
          /\ lc = completion(linestate.buf)
          /\ Len(lc) > 0
          /\ idx = tabs % (Len(lc) + 1))
  /\ [][pc = "complete" /\ pc' # "complete" =>
          \A k \in C8_Keys :
            (pc' = "idle" => ret'.key = k) /\ CompleteReturn(k, NoEsc) =>
              LET j == tabs % (Len(lc) + 1)
                  committed ==
                    IF j < Len(lc)
                      THEN [linestate EXCEPT !.buf = lc[j + 1], !.pos = Len(lc[j + 1])]
                      ELSE linestate
              IN /\ Outcome(k, NoEsc, editKey(linenoise, committed, k, NoEsc))
                 /\ k = KeycodeCR =>
                      pc' = "idle" /\ ret'.s = committed.buf /\ ret'.err = ErrNil]_vars

\* CR returned the second candidate for the line "a".
C8_Witness ==
  /\ pc = "idle"
  /\ linenoise.completion_callback
  /\ ret.key = KeycodeCR
  /\ ret.s = <<97, 32, 97>>
  /\ ret.err = ErrNil

\* C9: after any sequence of HistoryAdd, HistorySetMaxlen, HistoryLoad and
\* Read calls, len(history) <= history_maxlen.
C9_HistoryWithinMaxlen ==
  Len(linenoise.history) <= linenoise.history_maxlen

\* C10: HistoryAdd(line) leaves the history list unchanged when line equals
\* any existing entry or when history_maxlen is 0, and adding the same line
\* once more changes nothing.
C10_HistoryAddNoDuplicate ==
  call.op = "HistoryAdd" =>
    /\ (Contains(h0, call.line) \/ linenoise.history_maxlen = 0 =>
          linenoise.history = h0)
    /\ HistoryAdd(linenoise, call.line) = linenoise

\* HistoryAdd was called with a line equal to an entry that is not the
\* most recent one.
C10_Witness ==
  /\ call.op = "HistoryAdd"
  /\ Len(h0) = 2
  /\ h0[1] = call.line
  /\ h0[2] # call.line
  /\ linenoise.history = h0

\* C11: HistoryAdd of a line not present in a history that holds exactly
\* history_maxlen >= 1 entries removes the oldest entry, keeps the others in
\* their order and appends the line as the most recent entry.
C11_AddEvictsOldest ==
  (/\ call.op = "HistoryAdd"
   /\ linenoise.history_maxlen >= 1
   /\ Len(h0) = linenoise.history_maxlen
   /\ ~Contains(h0, call.line)) =>
    linenoise.history = Append(Tail(h0), call.line)

\* A line was added to a full history of two entries.
C11_Witness ==
  /\ call.op = "HistoryAdd"
  /\ linenoise.history_maxlen = 2
  /\ Len(h0) = 2
  /\ ~Contains(h0, call.line)
  /\ linenoise.history = <<h0[2], call.line>>

\* C12: HistorySetMaxlen(n) with 0 <= n < len(history) keeps exactly the n
\* most recent entries in their order and sets the capacity to n; with
\* n >= len(history) the entries are unchanged; with n < 0 neither the
\* capacity nor the entries change.
C12_SetMaxlenTruncates ==
  [][DoHistorySetMaxlen =>
       LET n == call'.n
           h == linenoise.history
       IN /\ (0 <= n /\ n < Len(h)) =>
               /\ linenoise'.history = SubSeq(h, Len(h) - n + 1, Len(h))
               /\ linenoise'.history_maxlen = n
          /\ n >= Len(h) => linenoise'.history = h
          /\ n < 0 =>
               /\ linenoise'.history = h
               /\ linenoise'.history_maxlen = linenoise.history_maxlen]_vars

\* A history of three entries was truncated to its two most recent ones.
C12_Witness ==
  /\ call.op = "HistorySetMaxlen"
  /\ call.n = 2
  /\ Len(h0) = 3
  /\ h0[1] # h0[3]
  /\ linenoise.history = <<h0[2], h0[3]>>
  /\ linenoise.history_maxlen = 2

\* C13: after any sequence of history operations (add, load, set_maxlen) and
\* Read calls with history navigation, the history holds no two adjacent
\* equal entries.
C13_NoAdjacentDuplicates ==
  pc = "idle" =>
    \A i \in 1..(Len(linenoise.history) - 1) :
      linenoise.history[i] # linenoise.history[i + 1]

\* C14: for any history whose entries are non-empty strings containing no
\* newline, HistorySave(path) followed by HistoryLoad(path) yields exactly the
\* same list in the same order.
C14_SaveLoadRoundTrip ==
  [][(/\ call.op = "HistorySave"
      /\ \A i \in 1..Len(linenoise.history) :
           /\ Len(linenoise.history[i]) > 0
           /\ ~Contains(linenoise.history[i], KeycodeLF)
      /\ DoHistoryLoad) =>
       linenoise'.history = linenoise.history]_vars

\* C14 as it holds: for any history of at least one entry whose entries are
\* non-empty, contain no newline and neither start nor end with white space,
\* HistorySave(path) followed by HistoryLoad(path) yields exactly the same
\* list in the same order.
C14_SaveLoadTrimmed ==
  [][(/\ call.op = "HistorySave"
      /\ Len(linenoise.history) > 0
      /\ \A i \in 1..Len(linenoise.history) :
           /\ Len(linenoise.history[i]) > 0
           /\ ~Contains(linenoise.history[i], KeycodeLF)
           /\ TrimSpace(linenoise.history[i]) = linenoise.history[i]
      /\ DoHistoryLoad) =>
       linenoise'.history = linenoise.history]_vars

\* A history of two entries was saved and loaded back from its own file.
C14_Witness ==
  /\ call.op = "HistoryLoad"
  /\ Len(linenoise.history) = 2
  /\ \A i \in 1..2 : /\ Len(linenoise.history[i]) > 0
                      /\ TrimSpace(linenoise.history[i]) = linenoise.history[i]
  /\ h0 = linenoise.history
  /\ file = File(Join(h0, <<KeycodeLF>>))

\* C15: every path that leaves Read, Loop or PrintKeycodes after raw mode was
\* enabled (a normal return, Quit, or an error or panic raised by a read, a
\* write or the caller's loop function) has restored the saved terminal
\* attributes and left rawmode false.
C15_RawModeRestored ==
  (pc \in {"idle", "panic"} /\ run.attrs # <<>>) =>
    /\ ~linenoise.rawmode
    /\ term.mode = run.attrs[1]

\* The terminals on which Read edits in raw mode, as C16 names them
C16_RawTerminal(t) == t.isatty /\ t.TERM \notin {"dumb", "cons25", "emacs"}

C17_LoopExits ==
  [][LoopPass =>
       /\ run'.r = run.exit_key =>
            /\ pc' = "idle"
            /\ run'.rc = "false"
            /\ run'.fn = 0
       /\ run'.r # run.exit_key =>
            /\ run'.fn = 1
            /\ run'.f = "true" => (pc' = "idle" /\ run'.rc = "true")
            /\ run'.f = "false" => (pc' = "loop" /\ run'.rc = "none")
       /\ pc' = "idle" =>
            /\ ~linenoise'.rawmode
            /\ term'.mode = run.attrs[1]]_vars

\* Loop returned true from a pass whose read timed out and whose call of fn
\* returned true.
C17_Witness ==
  /\ call.op = "Loop"
  /\ pc = "idle"
  /\ run.exit_key = KeycodeCtrlD
  /\ run.r = KeycodeNull
  /\ run.fn = 1
  /\ run.f = "true"
  /\ run.rc = "true"
  /\ ~linenoise.rawmode
  /\ term.mode = run.attrs[1]

\* C18: whenever the edit loop is waiting for the next keystroke, the buffer
\* and the cursor last painted by a refresh equal the in-memory buf and pos:
\* every change of buf or pos (an edit operation, history navigation or the
\* completion cycler, on all its exit paths) is followed by a refresh before
\* the next key is read.
C18_ShownIsBuffer ==
  pc = "edit" =>
    /\ linestate.shown.buf = linestate.buf
    /\ linestate.shown.pos = linestate.pos

\* b is a valid UTF-8 encoding
ValidUtf8(b) ==
  \A i \in 1..Len(Decode(b)) :
    ~(Decode(b)[i].r = ReplacementChar /\ Decode(b)[i].size = 1)

\* What add is to return for the bytes of the code points d: (NUL, 0) for
\* every byte but the last of a code point, for which the code point and
\* its size.
RECURSIVE Emits(_)
Emits(d) ==
  IF Len(d) = 0 THEN <<>>
  ELSE [i \in 1..(d[1].size - 1) |-> [r |-> KeycodeNull, size |-> 0]]
         \o <<d[1]>> \o Emits(Tail(d))

\* C19: for every byte stream that is a valid UTF-8 encoding (code points of
\* 1 to 4 bytes), feeding the bytes one by one to add emits, in order, exactly
\* the encoded code points, each with the size equal to its number of bytes,
\* and (NUL, 0) for every byte that does not complete a code point.
C19_ValidStreamDecoded ==
  ValidUtf8(dec.in) => dec.out = Emits(Decode(dec.in))

\* The four bytes of U+1F600 were fed and the last one gave the code point
\* with the size 4.
C19_Witness ==
  /\ dec.in = <<240, 159, 152, 128>>
  /\ dec.out = <<[r |-> KeycodeNull, size |-> 0], [r |-> KeycodeNull, size |-> 0],
                 [r |-> KeycodeNull, size |-> 0], [r |-> 128512, size |-> 4]>>

\* The results of add that carry a rune or an error, in order
RECURSIVE Emitted(_)
Emitted(out) ==
  IF Len(out) = 0 THEN <<>>
  ELSE (IF out[1].size > 0 THEN <<out[1]>> ELSE <<>>) \o Emitted(Tail(out))

\* C20: for a byte stream containing malformed bytes, the decoder emits
\* exactly one (U+FFFD, 1) per error position and resets, so that the
\* well-formed code points that follow the offending byte are still decoded:
\* between two code points, what the decoder has emitted is the standard
\* decoding of the bytes fed.
C20_MalformedReported ==
  dec.u.state = getByte0 => Emitted(dec.out) = Decode(dec.in)

\* The byte c violates the state machine of the decoder in the state of u:
\* where a code point starts it is 10xxxxxx or 11111xxx, or inside a code
\* point it is not 10xxxxxx.
C20_Violation(u, c) ==
  IF u.state = getByte0
    THEN (128 <= c /\ c <= 191) \/ c >= 248
    ELSE ~(128 <= c /\ c <= 191)

\* C20 as it holds: the decoder emits exactly one (U+FFFD, 1), and resets to
\* getByte0, at every byte that violates its state machine (a byte 10xxxxxx
\* or 11111xxx where a code point starts, or a byte other than 10xxxxxx
\* inside a code point) and at no other byte, and the well-formed code points
\* that follow such a byte are decoded.
C20_ViolationsReported ==
  /\ [](\A k \in 1..Len(dec.in) :
          (/\ dec.out[k] = [r |-> ReplacementChar, size |-> 1]
           /\ ValidUtf8(SubSeq(dec.in, k + 1, Len(dec.in)))) =>
            SubSeq(dec.out, k + 1, Len(dec.in)) =
              Emits(Decode(SubSeq(dec.in, k + 1, Len(dec.in)))))
  /\ [][AddByte =>
         LET c == dec'.in[Len(dec'.in)]
             a == dec'.out[Len(dec'.out)]
         IN /\ C20_Violation(dec.u, c) <=> a = [r |-> ReplacementChar, size |-> 1]
            /\ C20_Violation(dec.u, c) => dec'.u.state = getByte0]_vars

\* After the first byte of a two-byte code point the byte FF was reported,
\* and the U+00E9 that follows it was decoded.
C20_Witness ==
  /\ dec.in = <<195, 255, 195, 169>>
  /\ dec.out = <<[r |-> KeycodeNull, size |-> 0], [r |-> ReplacementChar, size |-> 1],
                 [r |-> KeycodeNull, size |-> 0], [r |-> 233, size |-> 2]>>

\* C21: a call of getRune that reads (input is available) while the decoder
\* is between code points, on a descriptor whose bytes start with a
\* well-formed code point of 2 to 4 bytes, returns that code point and has
\* consumed its bytes; and a call that reads returns NUL only when add
\* signalled a decode error.
C21_GetRuneReturnsRune ==
  [][GetRuneRead =>
       /\ \A n \in 2..4 :
            (/\ dec.u.state = getByte0
             /\ Len(dec.fd) >= n
             /\ WellFormed(SubSeq(dec.fd, 1, n))) =>
              /\ dec'.rune = <<CodePoint(SubSeq(dec.fd, 1, n))>>
              /\ dec'.fd = SubSeq(dec.fd, n + 1, Len(dec.fd))
       /\ dec'.rune = <<KeycodeNull>> =>
            dec'.out[Len(dec'.out)] = [r |-> ReplacementChar, size |-> 1]]_vars

\* C22: when Read has returned from the edit loop, by CR, the hotkey, a lone
\* Escape, Ctrl-D on an empty buffer or Ctrl-C, and the HistoryAdd at line
\* start had appended the live-buffer entry, that entry has been removed: the
\* history is one entry shorter than it was after that HistoryAdd.
C22_LiveEntryRemoved ==
  pc = "idle" /\ call.op = "Read" =>
    LET l1 == HistoryAdd([linenoise EXCEPT !.history = h0], call.line) IN
    l1.history # h0 => Len(linenoise.history) = Len(l1.history) - 1

\* C23: when Read has returned a line through CR or the hotkey, whatever
\* keys preceded it, the history is the history before the call: every entry
\* is present, unmodified and in the same order, and none has been added.
C23_HistoryPreserved ==
  (/\ pc = "idle"
   /\ call.op = "Read"
   /\ ret.err = ErrNil
   /\ ret.key # KeycodeESC) => linenoise.history = h0

\* C24: after add has returned a result with size > 0 (a complete rune or
\* the replacement character) the decoder is in the state getByte0, and it
\* is in one of the states get3More, get2More, get1More exactly when the
\* last result had the size 0.
C24_Byte0AfterEmit ==
  Len(dec.out) > 0 =>
    LET last == dec.out[Len(dec.out)] IN
    /\ last.size > 0 => dec.u.state = getByte0
    /\ dec.u.state \in {get3More, get2More, get1More} <=> last.size = 0

\* FF was answered with the replacement character, U+00E9 was emitted and
\* the first byte of a three-byte code point has left the decoder in
\* get2More.
C24_Witness ==
  /\ dec.in = <<255, 195, 169, 226>>
  /\ dec.out = <<[r |-> ReplacementChar, size |-> 1], [r |-> KeycodeNull, size |-> 0],
                 [r |-> 233, size |-> 2], [r |-> KeycodeNull, size |-> 0]>>
  /\ dec.u.state = get2More

\* The buffer b with the runes at the indices i and i + 1 (from 0) exchanged
Exchanged(b, i) ==
  [k \in 1..Len(b) |-> IF k = i + 1 THEN b[i + 2] ELSE IF k = i + 2 THEN b[i + 1] ELSE b[k]]

\* C25: Ctrl-T at pos = 0 changes nothing; at pos = len(buf), with at least
\* two runes, it exchanges the last two runes and leaves pos; at
\* 0 < pos < len(buf) it exchanges buf[pos-1] and buf[pos] and advances pos
\* by one.
C25_Swap ==
  [][KeyCtrlT =>
       LET b == linestate.buf
           p == linestate.pos
           n == Len(linestate.buf)
       IN /\ p = 0 => linestate'.buf = b /\ linestate'.pos = p
          /\ p = n /\ n >= 2 =>
               linestate'.buf = Exchanged(b, n - 2) /\ linestate'.pos = p
          /\ 0 < p /\ p < n =>
               linestate'.buf = Exchanged(b, p - 1) /\ linestate'.pos = p + 1]_vars

\* C26: Backspace at pos = 0 and delete (Ctrl-D on a buffer that is not
\* empty) at pos = len(buf) leave buf and pos as they are; otherwise Backspace
\* removes the one rune before the cursor, however many bytes encoded it, and
\* decrements pos, and delete removes the one rune at the cursor and leaves
\* pos; the other runes keep their order.
C26_BackspaceDelete ==
  [][EditByte =>
       LET b == linestate.buf
           p == linestate.pos
           n == Len(linestate.buf)
       IN /\ dec'.rune = <<KeycodeBS>> =>
               IF p = 0
                 THEN linestate'.buf = b /\ linestate'.pos = p
                 ELSE /\ linestate'.buf = SubSeq(b, 1, p - 1) \o SubSeq(b, p + 1, n)
                      /\ linestate'.pos = p - 1
          /\ dec'.rune = <<KeycodeCtrlD>> /\ n > 0 =>
               IF p = n
                 THEN linestate'.buf = b /\ linestate'.pos = p
                 ELSE /\ linestate'.buf = SubSeq(b, 1, p) \o SubSeq(b, p + 2, n)
                      /\ linestate'.pos = p]_vars

\* After the initial "a", the two bytes of U+00E9 were read and inserted as
\* one rune, and the Backspace that followed removed it whole.
C26_Witness ==
  /\ pc = "edit"
  /\ call.line = <<97>>
  /\ dec.in = <<195, 169, KeycodeBS>>
  /\ linestate.buf = <<97>>
  /\ linestate.pos = 1

\* C27: Ctrl-W moves pos left over the spaces immediately before the cursor
\* and then over the runes other than spaces before those, removes exactly
\* the runes between the new pos and the old pos, and leaves the runes
\* before the new pos and from the old pos onward as they are.
C27_DeletePrevWord ==
  [][EditByte /\ dec'.rune = <<KeycodeCtrlW>> =>
       LET b == linestate.buf
           p == linestate.pos
           s == CHOOSE q \in 0..p :
                  /\ \A i \in (q + 1)..p : b[i] = 32
                  /\ q = 0 \/ b[q] # 32
           w == CHOOSE q \in 0..s :
                  /\ \A i \in (q + 1)..s : b[i] # 32
                  /\ q = 0 \/ b[q] = 32
       IN /\ linestate'.pos = w
          /\ linestate'.buf = SubSeq(b, 1, w) \o SubSeq(b, p + 1, Len(b))]_vars

\* With "a a" in the buffer and the cursor before the last rune, Ctrl-W
\* removed the space and the word before it and left the last rune.
C27_Witness ==
  /\ pc = "edit"
  /\ call.line = <<97>>
  /\ dec.in = <<32, 97, KeycodeCtrlB, KeycodeCtrlW>>
  /\ linestate.buf = <<97>>
  /\ linestate.pos = 0

\* C28: a single-line refresh picks anchors with
\* 0 <= b_start <= pos <= b_end <= len(buf) and with the prompt and
\* buf[b_start..b_end] narrower than cols, and what it writes leaves the
\* terminal's cursor at the column prompt_width + width(buf[b_start..pos]),
\* which is below cols, for buffers with wide and zero-width runes too.
C28_SingleLineCursor ==
  pc = "edit" /\ ~screen.mlmode =>
    LET prompt_width == StringWidth(screen.prompt)
        b == linestate.buf
    IN /\ 0 <= screen.b_start /\ screen.b_start <= linestate.pos
       /\ linestate.pos <= screen.b_end /\ screen.b_end <= Len(b)
       /\ prompt_width + StringWidth(Slice(b, screen.b_start, screen.b_end)) < screen.cols
       /\ screen.col =
            prompt_width + StringWidth(Slice(b, screen.b_start, linestate.pos))
       /\ screen.col < screen.cols

\* C29: on a terminal narrower than the prompt and one glyph
\* (cols <= prompt_width + 1) the single-line refresh ends without a panic,
\* with b_start <= pos <= b_end <= len(buf).
C29_NarrowTerminal ==
  ~screen.mlmode /\ screen.cols <= StringWidth(screen.prompt) + 1 =>
    /\ ~screen.panic
    /\ 0 <= screen.b_start /\ screen.b_start <= linestate.pos
    /\ linestate.pos <= screen.b_end /\ screen.b_end <= Len(linestate.buf)

\* C30: in multiline mode, after a refresh the terminal's cursor is, from
\* where the prompt starts, on the row (prompt_width + width(buf[0..pos]))
\* div cols and in the column (prompt_width + width(buf[0..pos])) mod cols.
C30_MultilineCursor ==
  pc = "edit" /\ screen.mlmode =>
    LET w == StringWidth(screen.prompt) + StringWidth(Slice(linestate.buf, 0, linestate.pos))
    IN /\ screen.row = w \div screen.cols
       /\ screen.col = w % screen.cols

\* C31: a hint is painted only when hint_cols = cols - prompt_width -
\* width(buf) is positive; the painted hint is a prefix of the hint made
\* of whole runes, of a display width of at most hint_cols; and the string
\* that Read returns is the buffer, without the hint.
C31_HintPainted ==
  LET hint_cols == screen.cols - StringWidth(screen.prompt) - StringWidth(linestate.buf)
      h == screen.hinted
  IN /\ pc = "edit" =>
          /\ h # <<>> => hint_cols > 0
          /\ Len(h) <= Len(screen.hint) /\ h = Slice(screen.hint, 0, Len(h))
          /\ ValidUtf8(h)
          /\ StringWidth(StringRunes(h)) <= Max(hint_cols, 0)
     /\ pc = "idle" => ret.s = String(linestate)

\* The edit loop has read the whole input, which was the prefix pre and the
\* escape sequence seq.
EscapeRead(pre, seq) ==
  pc = "edit" /\ dec.fd = <<>> /\ dec.in = pre \o seq

\* The line and the history as they were when seq arrived after pre
EscapeIgnored(pre) ==
  /\ linestate.buf = call.line \o pre
  /\ linestate.pos = Len(call.line \o pre)
  /\ linestate.history_idx = 0
  /\ linenoise.history = HistoryAdd([linenoise EXCEPT !.history = h0], call.line).history

\* C32: an escape sequence that is not a recognised one is ignored, whatever
\* its length: once it is read, Read has not returned, the buffer, pos and
\* the history are what they were before it, and none of its runes is in
\* the buffer.
C32_UnknownEscapeIgnored ==
  \A pre \in EscPrefixes, seq \in UnknownEscapes :
    /\ EscapeRead(pre, seq) => EscapeIgnored(pre)
    /\ (dec.in = pre \o seq /\ dec.fd = <<>>) => pc = "edit"

\* C33: a lone ESC during completion cycling, after any number of TABs,
\* ends the cycling with the original buffer and pos in place and shown on
\* the terminal; the edit loop goes on with that buffer (NUL is what it
\* got), Read has not returned and the history still holds the live entry.
C33_LoneEscapeRestores ==
  \A pre \in EscPrefixes, n \in 1..MaxTabs :
    (/\ linenoise.completion_callback
     /\ dec.in = pre \o Tabs(n) \o <<KeycodeESC>>
     /\ dec.fd = <<>>) =>
       /\ pc = "edit"
       /\ EscapeIgnored(pre)
       /\ linestate.shown = [buf |-> linestate.buf, pos |-> linestate.pos]
       /\ ret = NoReturn
       /\ lc = <<>>

\* After "a", TAB and a lone ESC the candidate "aa" that was shown is gone.
C33_Witness ==
  /\ linenoise.completion_callback
  /\ dec.in = <<97, KeycodeTAB, KeycodeESC>>
  /\ dec.fd = <<>>
  /\ call.line = <<>>
  /\ pc = "edit"
  /\ linestate.buf = <<97>>
  /\ linestate.shown.buf = <<97>>

\* A history-prev key (Ctrl-P, cursor up) and a history-next key (Ctrl-N,
\* cursor down) in the edit loop.
PrevStep == EditKey(KeycodeCtrlP, NoEsc) \/ EditKey(KeycodeESC, Esc(91, 65, 0))
NextStep == EditKey(KeycodeCtrlN, NoEsc) \/ EditKey(KeycodeESC, Esc(91, 66, 0))

\* What a navigation key is to do, i being the new index: history_idx is
\* within the history; the buffer has been stored in the slot of the old
\* index, index j being history[len-1-j]; the index is i; and the buffer is
\* the entry at i, with pos at its end.
Navigated(i) ==
  LET n == Len(linenoise.history) IN
  /\ 0 <= linestate'.history_idx /\ linestate'.history_idx <= n - 1
  /\ linestate'.history_idx = i
  /\ linenoise'.history =
       [j \in 1..n |-> IF j = n - linestate.history_idx THEN String(linestate)
                                                        ELSE linenoise.history[j]]
  /\ linestate'.buf = linenoise'.history[n - i]
  /\ linestate'.pos = Len(linestate'.buf)

\* history_idx after prev and after next
PrevIndex ==
  IF linestate.history_idx + 1 >= Len(linenoise.history)
    THEN Len(linenoise.history) - 1 ELSE linestate.history_idx + 1
NextIndex ==
  IF linestate.history_idx - 1 < 0 THEN 0 ELSE linestate.history_idx - 1

\* C34: historyPrev and historyNext store the buffer in the slot at
\* history_idx, move history_idx by one (prev toward older entries, clamped
\* at len(history)-1; next toward newer ones, clamped at 0) and give the
\* entry at the new index; 0 <= history_idx <= len(history)-1 after every
\* navigation key.
C34_HistoryNavigation ==
  [][/\ PrevStep => Navigated(PrevIndex)
     /\ NextStep => Navigated(NextIndex)]_vars

\* C34 for a history that is not empty (history_maxlen > 0)
C34_HistoryNavigationNonEmpty ==
  [][Len(linenoise.history) >= 1 =>
       /\ PrevStep => Navigated(PrevIndex)
       /\ NextStep => Navigated(NextIndex)]_vars

\* With the history ["a"] and the typed line "aa", history-prev has stored
\* "aa" in the slot of the live entry and shows "a".
C34_Witness ==
  /\ pc = "edit"
  /\ h0 = << <<97>> >>
  /\ linenoise.history = << <<97>>, <<97, 97>> >>
  /\ linestate.history_idx = 1
  /\ linestate.buf = <<97>>

\* C35: a history-prev key immediately followed by a history-next key
\* leaves the buffer text and history_idx as they were before the two keys,
\* with pos at the end of the text, whenever history_idx was not already at
\* the oldest entry.  It is stated at the step of the history-prev key, for
\* what the history-next key then does to the line that the step gives.
C35_PrevThenNext ==
  [][(PrevStep /\ linestate.history_idx < Len(linenoise.history) - 1) =>
       LET q == editHistoryNext(linenoise', linestate') IN
       /\ pc' = "edit"
       /\ ~q.done
       /\ q.ls.buf = linestate.buf
       /\ q.ls.history_idx = linestate.history_idx
       /\ q.ls.pos = Len(linestate.buf)]_vars

\* One history-prev key has moved from the typed line "a " to the entry "a"
\* before it, and history-next is to give "a " back.
C35_Witness ==
  /\ pc = "edit"
  /\ linestate.history_idx = 1
  /\ linenoise.history = << <<97>>, <<97, 32>> >>
  /\ linestate.buf = <<97>>
  /\ editHistoryNext(linenoise, linestate).ls.buf = <<97, 32>>
  /\ editHistoryNext(linenoise, linestate).ls.history_idx = 0

\* C36: when the history is empty during editing (history_maxlen is 0),
\* history-prev and history-next leave the buffer and pos unchanged.
C36_EmptyHistoryNavigation ==
  [][((PrevStep \/ NextStep) /\ Len(linenoise.history) = 0) =>
       /\ linestate'.buf = linestate.buf
       /\ linestate'.pos = linestate.pos]_vars

\* C37: the column count used for a line is at least 1, whatever the ioctl
\* or the cursor position reply reports, and the multi-line refresh does
\* not divide by zero.
C37_ColumnsPositive ==
  /\ screen.cols >= 1
  /\ screen.mlmode => ~screen.panic

\* C38: the basic line read returns Quit only when the input stream has
\* ended; when the scanner stops because of a read error, it is that error
\* that is returned, not Quit.
C38_ReadErrorReturned ==
  [][(ReadNotTty \/ ReadUnsupported) =>
       /\ ret'.err = ErrQuit => (Len(term.stdin) = 0 /\ ~term.stdinerr)
       /\ (Len(term.stdin) = 0 /\ term.stdinerr) => ret'.err \notin {ErrQuit, ErrNil}]_vars

\* The maximal runs of bytes other than the space in s, as the pairs of
\* their first index and of the index after their last
MaximalRuns(s) ==
  {p \in (0..Len(s)) \X (0..Len(s)) :
     /\ p[1] < p[2]
     /\ \A i \in (p[1] + 1)..p[2] : s[i] # 32
     /\ p[1] = 0 \/ s[p[1]] = 32
     /\ p[2] = Len(s) \/ s[p[2] + 1] = 32}

\* C39: splitIndex returns, from left to right, one [start, end) pair of byte
\* indices for every maximal run of characters other than the space and
\* nothing else: no pair for the empty string, no empty token for several
\* spaces in a row, and no space within s[start:end].
C39_SplitIndex ==
  call.op = "completionCallback" =>
    LET s == cli.line
        r == cli.cmdIndices
    IN /\ {r[i] : i \in 1..Len(r)} = MaximalRuns(s)
       /\ \A i \in 1..(Len(r) - 1) : r[i][2] < r[i + 1][1]
       /\ s = <<>> => r = <<>>
       /\ \A i \in 1..Len(r) :
            /\ r[i][1] < r[i][2]
            /\ ~Contains(Slice(s, r[i][1], r[i][2]), 32)

\* The line "s", two spaces and a byte that starts no rune was split into
\* its two tokens.
C39_Witness ==
  /\ call.op = "completionCallback"
  /\ cli.line = <<115, 32, 32, 228>>
  /\ cli.cmdIndices = << <<0, 1>>, <<3, 4>> >>

\* The last Run gave context help: for the token idx of its line
HelpShown(o) == o.op \in {"commandHelp", "functionHelp"}

\* The string s without its byte at the index q
Without(s, q) == Slice(s, 0, q) \o Slice(s, q + 1, Len(s))

\* C40: when a command line asks for context help with a '?', on a menu
\* token or as the last argument of a leaf command, parseCmdline shows the
\* help, calls no leaf function, adds nothing to the history and returns
\* as the next line the line without that '?', the rest unchanged.
C40_ContextHelp ==
  \A i \in 1..Len(cli.out) :
    HelpShown(cli.out[i]) =>
      LET q == splitIndex(cli.line)[cli.out[i].idx + 1][2] - 1 IN
      /\ cli.line[q + 1] = 63
      /\ cli.calls = <<>>
      /\ linenoise.history = h0
      /\ cli.currentLine = Without(cli.line, q)

====
